---- MODULE Spec2Model ----
(***************************************************************************)
(* Model of the OneCoreMxPy CSV intake and document analysis paths:        *)
(*   app/services/csv_service.py  CSVService.validate_and_process,         *)
(*                                _compute_row_hash, _is_numeric,          *)
(*                                rows_to_json                             *)
(*   app/api/files.py             upload_csv_file                          *)
(*   app/services/s3_service.py   S3Service.ensure_bucket_exists,          *)
(*                                upload_file, download_file, delete_file  *)
(*   app/api/documents.py         upload_document, reanalyze_document      *)
(*   app/services/event_service.py                                         *)
(*                                EventService.create_event,               *)
(*                                log_document_upload, log_ai_analysis     *)
(*   app/models/models.py         Document, InvoiceData, InfoData          *)
(*   app/services/document_service.py                                      *)
(*                                DocumentService.analyze_document,        *)
(*                                _classify_document,                      *)
(*                                _extract_invoice_data,                   *)
(*                                _extract_info_data                       *)
(*   app/schemas/schemas.py       DocumentTypeEnum, InvoiceProduct,        *)
(*                                InvoiceDataBase, InfoDataBase,           *)
(*                                DocumentAnalysisResult                   *)
(*                                                                         *)
(* Bytes are integers 0..255 and characters are Unicode code points, so    *)
(* decoding, CSV tokenising, sorting and formatting are computed and not   *)
(* assumed.  A Python value is a record [t, s, l]: t = "str" with the code *)
(* points in s, t = "none" for None, t = "list" with the elements in l.    *)
(***************************************************************************)
EXTENDS Integers, Sequences, FiniteSets, TLC

(***************************************************************************)
(* Notation: printable ASCII, so that literals of the source and of its    *)
(* tests can be written as characters.                                     *)
(***************************************************************************)
Printable ==
  <<" ", "!", "\"", "#", "$", "%", "&", "'", "(", ")", "*", "+", ",", "-",
    ".", "/", "0", "1", "2", "3", "4", "5", "6", "7", "8", "9", ":", ";",
    "<", "=", ">", "?", "@", "A", "B", "C", "D", "E", "F", "G", "H", "I",
    "J", "K", "L", "M", "N", "O", "P", "Q", "R", "S", "T", "U", "V", "W",
    "X", "Y", "Z", "[", "\\", "]", "^", "_", "<grave>", "a", "b", "c", "d", "e",
    "f", "g", "h", "i", "j", "k", "l", "m", "n", "o", "p", "q", "r", "s",
    "t", "u", "v", "w", "x", "y", "z", "{", "|", "}", "~">>

Ord(c) ==
  IF c = "\n" THEN 10
  ELSE IF c = "\r" THEN 13
  ELSE IF c = "\t" THEN 9
  ELSE 31 + (CHOOSE i \in 1..Len(Printable) : Printable[i] = c)

\* the code points (or bytes) of an ASCII literal written as characters
B(chars) == [i \in 1..Len(chars) |-> Ord(chars[i])]

(***************************************************************************)
(* Python values                                                           *)
(***************************************************************************)
PyStr(s) == [t |-> "str", s |-> s, l |-> <<>>]
PyNone == [t |-> "none", s |-> <<>>, l |-> <<>>]
PyList(l) == [t |-> "list", s |-> <<>>, l |-> l]

\* str(v), the text f"{v}" interpolates
NoneText == B(<<"N", "o", "n", "e">>)

RECURSIVE ReprList(_)
ReprList(l) ==
  IF l = <<>> THEN <<>>
  ELSE B(<<"'">>) \o Head(l) \o B(<<"'">>)
       \o (IF Len(l) > 1 THEN B(<<",", " ">>) ELSE <<>>) \o ReprList(Tail(l))

Str(v) ==
  IF v.t = "str" THEN v.s
  ELSE IF v.t = "none" THEN NoneText
  ELSE B(<<"[">>) \o ReprList(v.l) \o B(<<"]">>)

(***************************************************************************)
(* bytes.decode("utf-8") and bytes.decode("latin-1")                       *)
(***************************************************************************)
IsCont(b) == b >= 128 /\ b <= 191

\* the number of bytes of the UTF-8 sequence starting at b[i], 0 if invalid
Utf8Len(b, i) ==
  LET c == b[i]
      n == Len(b)
      c1 == IF i + 1 <= n THEN b[i + 1] ELSE 0
      c2 == IF i + 2 <= n THEN b[i + 2] ELSE 0
      c3 == IF i + 3 <= n THEN b[i + 3] ELSE 0
  IN IF c < 128 THEN 1
     ELSE IF c >= 194 /\ c <= 223 THEN (IF IsCont(c1) THEN 2 ELSE 0)
     ELSE IF c >= 224 /\ c <= 239
       THEN (IF /\ IsCont(c1) /\ IsCont(c2)
                /\ (c = 224 => c1 >= 160)
                /\ (c = 237 => c1 <= 159) THEN 3 ELSE 0)
     ELSE IF c >= 240 /\ c <= 244
       THEN (IF /\ IsCont(c1) /\ IsCont(c2) /\ IsCont(c3)
                /\ (c = 240 => c1 >= 144)
                /\ (c = 244 => c1 <= 143) THEN 4 ELSE 0)
     ELSE 0

Utf8Point(b, i, k) ==
  IF k = 1 THEN b[i]
  ELSE IF k = 2 THEN (b[i] - 192) * 64 + (b[i + 1] - 128)
  ELSE IF k = 3 THEN (b[i] - 224) * 4096 + (b[i + 1] - 128) * 64 + (b[i + 2] - 128)
  ELSE (b[i] - 240) * 262144 + (b[i + 1] - 128) * 4096
       + (b[i + 2] - 128) * 64 + (b[i + 3] - 128)

\* [ok |-> FALSE] stands for UnicodeDecodeError
RECURSIVE Utf8DecodeFrom(_, _, _)
Utf8DecodeFrom(b, i, acc) ==
  IF i > Len(b) THEN [ok |-> TRUE, s |-> acc]
  ELSE LET k == Utf8Len(b, i)
       IN IF k = 0 THEN [ok |-> FALSE, s |-> <<>>]
          ELSE Utf8DecodeFrom(b, i + k, Append(acc, Utf8Point(b, i, k)))

Utf8Decode(b) == Utf8DecodeFrom(b, 1, <<>>)

\* latin-1 maps byte n to code point n and never fails
Latin1Decode(b) == [i \in 1..Len(b) |-> b[i]]

\* a decoder that drops the bytes UTF-8 cannot decode (errors = "ignore")
Decode_DropInvalid(b) ==
  IF Utf8Decode(b).ok THEN Utf8Decode(b).s ELSE SelectSeq(b, LAMBDA c : c < 128)

Decode(b) ==
  LET u == Utf8Decode(b)
  IN IF u.ok THEN u.s ELSE Latin1Decode(b)

(***************************************************************************)
(* io.StringIO(content) iterated by the csv reader: lines end at "\n" and  *)
(* keep it (no newline translation).                                       *)
(***************************************************************************)
RECURSIVE SplitLinesFrom(_, _, _, _)
SplitLinesFrom(s, i, cur, acc) ==
  IF i > Len(s) THEN (IF cur = <<>> THEN acc ELSE Append(acc, cur))
  ELSE IF s[i] = 10 THEN SplitLinesFrom(s, i + 1, <<>>, Append(acc, Append(cur, s[i])))
  ELSE SplitLinesFrom(s, i + 1, Append(cur, s[i]), acc)

SplitLines(s) == SplitLinesFrom(s, 1, <<>>, <<>>)

(***************************************************************************)
(* csv.reader with the default "excel" dialect (delimiter ",", quotechar   *)
(* '"', doublequote, not strict): the character state machine.  p is the   *)
(* parser: its state, the fields saved so far, the field being built, and  *)
(* err when csv.Error was raised.                                          *)
(***************************************************************************)
ParseReset == [state |-> "START_RECORD", fields |-> <<>>, field |-> <<>>, err |-> FALSE]

SaveField(p) == [p EXCEPT !.fields = Append(p.fields, p.field), !.field = <<>>]

AddChar(p, c) == [p EXCEPT !.field = Append(p.field, c)]

IsNewline(c) == c = 10 \/ c = 13

Delimiter == Ord(",")
QuoteChar == Ord("\"")

\* eol is TRUE for the end-of-line marker the reader feeds after each line
ProcessChar(p, c, eol) ==
  LET startField ==
        IF eol THEN [SaveField(p) EXCEPT !.state = "START_RECORD"]
        ELSE IF IsNewline(c) THEN [SaveField(p) EXCEPT !.state = "EAT_CRNL"]
        ELSE IF c = QuoteChar THEN [p EXCEPT !.state = "IN_QUOTED_FIELD"]
        ELSE IF c = Delimiter THEN SaveField(p)
        ELSE [AddChar(p, c) EXCEPT !.state = "IN_FIELD"]
  IN CASE p.state = "START_RECORD" ->
            IF eol THEN p
            ELSE IF IsNewline(c) THEN [p EXCEPT !.state = "EAT_CRNL"]
            ELSE startField
       [] p.state = "START_FIELD" -> startField
       [] p.state = "IN_FIELD" ->
            IF eol THEN [SaveField(p) EXCEPT !.state = "START_RECORD"]
            ELSE IF IsNewline(c) THEN [SaveField(p) EXCEPT !.state = "EAT_CRNL"]
            ELSE IF c = Delimiter THEN [SaveField(p) EXCEPT !.state = "START_FIELD"]
            ELSE AddChar(p, c)
       [] p.state = "IN_QUOTED_FIELD" ->
            IF eol THEN p
            ELSE IF c = QuoteChar THEN [p EXCEPT !.state = "QUOTE_IN_QUOTED_FIELD"]
            ELSE AddChar(p, c)
       [] p.state = "QUOTE_IN_QUOTED_FIELD" ->
            IF eol THEN [SaveField(p) EXCEPT !.state = "START_RECORD"]
            ELSE IF c = QuoteChar THEN [AddChar(p, c) EXCEPT !.state = "IN_QUOTED_FIELD"]
            ELSE IF c = Delimiter THEN [SaveField(p) EXCEPT !.state = "START_FIELD"]
            ELSE IF IsNewline(c) THEN [SaveField(p) EXCEPT !.state = "EAT_CRNL"]
            ELSE [AddChar(p, c) EXCEPT !.state = "IN_FIELD"]
       [] p.state = "EAT_CRNL" ->
            IF eol THEN [p EXCEPT !.state = "START_RECORD"]
            ELSE IF IsNewline(c) THEN p
            ELSE [p EXCEPT !.err = TRUE]

\* one line of input: each character, then the end-of-line marker
RECURSIVE FeedLine(_, _, _)
FeedLine(p, line, i) ==
  IF p.err THEN p
  ELSE IF i > Len(line) THEN ProcessChar(p, 0, TRUE)
  ELSE FeedLine(ProcessChar(p, line[i], FALSE), line, i + 1)

\* next(reader): kind "row" with the fields, "stop" for StopIteration,
\* "error" for csv.Error; idx is the next line the reader will fetch
RECURSIVE ReaderFrom(_, _, _)
ReaderFrom(lines, idx, p) ==
  IF idx > Len(lines)
  THEN IF p.field # <<>> \/ p.state = "IN_QUOTED_FIELD"
       THEN [kind |-> "row", fields |-> SaveField(p).fields, idx |-> idx]
       ELSE [kind |-> "stop", fields |-> <<>>, idx |-> idx]
  ELSE LET q == FeedLine(p, lines[idx], 1)
       IN IF q.err THEN [kind |-> "error", fields |-> <<>>, idx |-> idx + 1]
          ELSE IF q.state = "START_RECORD"
            THEN [kind |-> "row", fields |-> q.fields, idx |-> idx + 1]
          ELSE ReaderFrom(lines, idx + 1, q)

ReaderNext(lines, idx) == ReaderFrom(lines, idx, ParseReset)

(***************************************************************************)
(* csv.DictReader.  A dict is the sequence of its items [k, v] in          *)
(* insertion order; keys and values are Python values.                     *)
(***************************************************************************)
HasKey(d, k) == \E i \in 1..Len(d) : d[i].k = k

DictSet(d, k, v) ==
  IF HasKey(d, k)
  THEN [i \in 1..Len(d) |-> IF d[i].k = k THEN [k |-> k, v |-> v] ELSE d[i]]
  ELSE Append(d, [k |-> k, v |-> v])

\* dict(zip(fieldnames, row))
RECURSIVE ZipDict(_, _, _, _)
ZipDict(names, row, i, d) ==
  IF i > Len(names) \/ i > Len(row) THEN d
  ELSE ZipDict(names, row, i + 1, DictSet(d, PyStr(names[i]), PyStr(row[i])))

\* for key in fieldnames[lr:]: d[key] = restval
RECURSIVE FillRest(_, _, _)
FillRest(names, i, d) ==
  IF i > Len(names) THEN d
  ELSE FillRest(names, i + 1, DictSet(d, PyStr(names[i]), PyNone))

MakeRow(names, row) ==
  LET d == ZipDict(names, row, 1, <<>>)
      lf == Len(names)
      lr == Len(row)
  IN IF lf < lr
     THEN DictSet(d, PyNone, PyList(SubSeq(row, lf + 1, lr)))
     ELSE IF lf > lr THEN FillRest(names, lr + 1, d)
     ELSE d

\* DictReader.__next__: blank records are skipped
RECURSIVE DictReaderNext(_, _, _)
DictReaderNext(names, lines, idx) ==
  LET r == ReaderNext(lines, idx)
  IN IF r.kind = "row" /\ r.fields = <<>> THEN DictReaderNext(names, lines, r.idx)
     ELSE IF r.kind = "row"
       THEN [kind |-> "row", row |-> MakeRow(names, r.fields), idx |-> r.idx]
     ELSE [kind |-> r.kind, row |-> <<>>, idx |-> r.idx]

(***************************************************************************)
(* CSVService._compute_row_hash                                            *)
(***************************************************************************)
\* Python's str ordering: lexicographic on code points
RECURSIVE StrLess(_, _, _)
StrLess(a, b, i) ==
  IF i > Len(b) THEN FALSE
  ELSE IF i > Len(a) THEN TRUE
  ELSE IF a[i] < b[i] THEN TRUE
  ELSE IF a[i] > b[i] THEN FALSE
  ELSE StrLess(a, b, i + 1)

\* sorted() compares the items as tuples, the keys first; the keys of a dict
\* are distinct, so the values are never reached.  Comparing None with a str
\* raises TypeError, and every item of a list of two or more is compared.
SortRaises(d) ==
  /\ Len(d) >= 2
  /\ \E i \in 1..Len(d) : d[i].k.t # "str"

RECURSIVE InsertItem(_, _, _)
InsertItem(sorted, item, i) ==
  IF i > Len(sorted) THEN Append(sorted, item)
  ELSE IF StrLess(Str(item.k), Str(sorted[i].k), 1)
    THEN SubSeq(sorted, 1, i - 1) \o <<item>> \o SubSeq(sorted, i, Len(sorted))
  ELSE InsertItem(sorted, item, i + 1)

\* a fingerprint built from the items in insertion order
SortItems_Unsorted(d, i, acc) == d

RECURSIVE SortItems(_, _, _)
SortItems(d, i, acc) ==
  IF i > Len(d) THEN acc ELSE SortItems(d, i + 1, InsertItem(acc, d[i], 1))

Colon == B(<<":">>)
Bar == B(<<"|">>)

\* "|".join(f"{k}:{v}" for k, v in sorted_items)
RECURSIVE JoinItems(_, _)
JoinItems(items, i) ==
  IF i > Len(items) THEN <<>>
  ELSE Str(items[i].k) \o Colon \o Str(items[i].v)
       \o (IF i < Len(items) THEN Bar ELSE <<>>) \o JoinItems(items, i + 1)

RowStr(row) == JoinItems(SortItems(row, 1, <<>>), 1)

\* hashlib.md5(text.encode()).hexdigest(): the digest is kept symbolic, one
\* digest per text, i.e. MD5 is taken to be collision-free on the texts of
\* the model; equal texts have equal digests.
Md5Hex(text) == [md5 |-> text]

\* raised = TRUE stands for the TypeError of sorted()
compute_row_hash(row) ==
  IF SortRaises(row) THEN [raised |-> TRUE, hash |-> Md5Hex(<<>>)]
  ELSE [raised |-> FALSE, hash |-> Md5Hex(RowStr(row))]

(***************************************************************************)
(* str.strip, str.lower, str.replace and float() on code points            *)
(***************************************************************************)
\* the characters str.strip() removes, within Latin-1
IsSpace(c) == c \in {9, 10, 11, 12, 13, 28, 29, 30, 31, 32, 133, 160}

RECURSIVE LStrip(_)
LStrip(s) == IF s # <<>> /\ IsSpace(Head(s)) THEN LStrip(Tail(s)) ELSE s

RECURSIVE RStrip(_)
RStrip(s) ==
  IF s # <<>> /\ IsSpace(s[Len(s)]) THEN RStrip(SubSeq(s, 1, Len(s) - 1)) ELSE s

Strip(s) == RStrip(LStrip(s))

\* value is None or str(value).strip() == ""
IsEmptyValue(v) == v.t = "none" \/ Strip(Str(v)) = <<>>

LowerChar(c) ==
  IF c >= 65 /\ c <= 90 THEN c + 32
  ELSE IF c >= 192 /\ c <= 222 /\ c # 215 THEN c + 32
  ELSE c

Lower(s) == [i \in 1..Len(s) |-> LowerChar(s[i])]

DotChar == Ord(".")
Underscore == Ord("_")
PlusChar == Ord("+")
MinusChar == Ord("-")
LowerE == Ord("e")
UpperE == Ord("E")

\* str.replace(",", ".")
CommaToDot(s) == [i \in 1..Len(s) |-> IF s[i] = Delimiter THEN DotChar ELSE s[i]]

IsDigit(c) == c >= 48 /\ c <= 57

\* the index after the digit part (digits, single underscores between them)
\* starting at s[i]; i itself when there is none
RECURSIVE DigitsEnd(_, _)
DigitsEnd(s, i) ==
  IF i > Len(s) \/ ~IsDigit(s[i]) THEN i
  ELSE IF i + 2 <= Len(s) /\ s[i + 1] = Underscore /\ IsDigit(s[i + 2])
    THEN DigitsEnd(s, i + 2)
  ELSE DigitsEnd(s, i + 1)

SkipSign(s, i) ==
  IF i <= Len(s) /\ (s[i] = PlusChar \/ s[i] = MinusChar) THEN i + 1 ELSE i

SpecialFloats ==
  { B(<<"i", "n", "f">>), B(<<"n", "a", "n">>),
    B(<<"i", "n", "f", "i", "n", "i", "t", "y">>) }

\* float(text) succeeds
IsFloatText(text) ==
  LET s == Strip(text)
      n == Len(s)
      i1 == SkipSign(s, 1)
      a == DigitsEnd(s, i1)
      dot == a <= n /\ s[a] = DotChar
      b == IF dot THEN DigitsEnd(s, a + 1) ELSE a
      mantissa == a > i1 \/ (dot /\ b > a + 1)
      exp == b <= n /\ (s[b] = LowerE \/ s[b] = UpperE)
      c == IF exp THEN SkipSign(s, b + 1) ELSE b
      d == IF exp THEN DigitsEnd(s, c) ELSE b
  IN \/ Lower(SubSeq(s, i1, n)) \in SpecialFloats
     \/ /\ mantissa
        /\ exp => d > c
        /\ d = n + 1

\* CSVService._is_numeric: float(str(value).replace(",", ".")), ValueError
\* and TypeError caught
is_numeric(v) == IsFloatText(CommaToDot(Str(v)))

\* CSVService.__init__
numeric_columns ==
  { B(<<"p", "r", "e", "c", "i", "o">>), B(<<"c", "a", "n", "t", "i", "d", "a", "d">>),
    B(<<"m", "o", "n", "t", "o">>), B(<<"t", "o", "t", "a", "l">>),
    B(<<"p", "r", "i", "c", "e">>), B(<<"q", "u", "a", "n", "t", "i", "t", "y">>),
    B(<<"a", "m", "o", "u", "n", "t">>) }

(***************************************************************************)
(* ValidationResult records and the column loop of validate_and_process    *)
(***************************************************************************)
\* row_number 0 and column_name PyNone stand for the absent optional fields;
\* message is the f-string: its literal text and the interpolated values
ValidationResult(type, row, col, text, args, sev) ==
  [validation_type |-> type, row_number |-> row, column_name |-> col,
   message |-> [text |-> text, args |-> args], severity |-> sev]

StructureError ==
  ValidationResult("structure_error", 0, PyNone,
                   "El archivo CSV no tiene encabezados", <<>>, "error")

EmptyFile ==
  ValidationResult("empty_file", 0, PyNone,
                   "El archivo CSV no contiene datos", <<>>, "error")

ParseError ==
  ValidationResult("parse_error", 0, PyNone,
                   "Error al parsear CSV: {str(e)}", <<"csv.Error">>, "error")

UnknownError(e) ==
  ValidationResult("unknown_error", 0, PyNone,
                   "Error desconocido: {str(e)}", <<e>>, "error")

DuplicateRow(row, first) ==
  ValidationResult("duplicate_row", row, PyNone,
                   "Fila duplicada (igual a fila {})", <<first>>, "warning")

EmptyValue(row, col) ==
  ValidationResult("empty_value", row, col,
                   "Valor vacio en columna '{col_name}'", <<col>>, "warning")

\* an invalid_type entry that blocks the upload
InvalidType_AsError(row, col, value) ==
  ValidationResult("invalid_type", row, col,
                   "Tipo incorrecto ('{value}') en columna '{col_name}' - se esperaba numero",
                   <<value, col>>, "error")

InvalidType(row, col, value) ==
  ValidationResult("invalid_type", row, col,
                   "Tipo incorrecto ('{value}') en columna '{col_name}' - se esperaba numero",
                   <<value, col>>, "warning")

\* the validations of one cell, lines 69-89
CellValidations(row, col, value) ==
  IF IsEmptyValue(value) THEN <<EmptyValue(row, col)>>
  ELSE IF Lower(Str(col)) \in numeric_columns /\ ~is_numeric(value)
    THEN <<InvalidType(row, col, value)>>
  ELSE <<>>

\* for col_name, value in row.items()
RECURSIVE ValidateColumns(_, _, _)
ValidateColumns(d, i, row) ==
  IF i > Len(d) THEN <<>>
  ELSE CellValidations(row, d[i].k, d[i].v) \o ValidateColumns(d, i + 1, row)

\* a handler that lacks the "except Exception" clause
ExceptClause_OnlyCsvError(e) ==
  IF e = "csv.Error" THEN "parse_error"
  ELSE "propagate"

\* the except clauses of validate_and_process: the validation an exception
\* is converted to, "propagate" when no clause matches
ExceptClause(e) ==
  IF e = "csv.Error" THEN "parse_error"
  ELSE "unknown_error"

\* CSVService.rows_to_json
RowToJson(d) ==
  [i \in 1..Len(d) |->
     [k |-> d[i].k, v |-> IF d[i].v.t = "none" THEN PyNone ELSE PyStr(Str(d[i].v))]]

rows_to_json(rs) == [i \in 1..Len(rs) |-> RowToJson(rs[i])]

(***************************************************************************)
(* upload_csv_file: the checks before validation                           *)
(***************************************************************************)
\* filename.rsplit(".", 1)[-1]
RECURSIVE AfterLastDot(_, _)
AfterLastDot(s, i) ==
  IF i = 0 THEN s
  ELSE IF s[i] = DotChar THEN SubSeq(s, i + 1, Len(s))
  ELSE AfterLastDot(s, i - 1)

FileExt(name) == Lower(AfterLastDot(name, Len(name)))

\* Settings.allowed_extensions_list with the default "csv"
allowed_extensions_list == { B(<<"c", "s", "v">>) }

\* Settings.max_file_size_bytes with the default max_file_size_mb
max_file_size_bytes == 10 * 1024 * 1024

\* the status the checks of lines 55-83 reject the request with, 0 if none
PrecheckStatus(name, bytes) ==
  IF name = <<>> THEN 400
  ELSE IF FileExt(name) \notin allowed_extensions_list THEN 400
  ELSE IF Len(bytes) > max_file_size_bytes THEN 413
  ELSE IF Len(bytes) = 0 THEN 400
  ELSE 0

HasError(vs) == \E i \in 1..Len(vs) : vs[i].severity = "error"

\* a filter that keeps the warnings too
CriticalErrors_AnyValidation(vs) == vs

\* critical_errors = [v for v in validations if v.severity == "error"]
CriticalErrors(vs) == SelectSeq(vs, LAMBDA v : v.severity = "error")

(***************************************************************************)
(* app/services/document_service.py  DocumentService.analyze_document and  *)
(* the three AI operations it calls.                                       *)
(*                                                                         *)
(* A JSON value, and a field of a pydantic model, is a record [t, n, s, l]:*)
(* t = "null"; t = "num" with the number in hundredths in n; t = "str"     *)
(* with the code points in s; t = "list" with the elements in l; t = "obj" *)
(* with the members [k, v] in l, in the order of the text.                 *)
(***************************************************************************)
JNull == [t |-> "null", n |-> 0, s |-> <<>>, l |-> <<>>]
JNum(n) == [t |-> "num", n |-> n, s |-> <<>>, l |-> <<>>]
JStr(s) == [t |-> "str", n |-> 0, s |-> s, l |-> <<>>]
JList(l) == [t |-> "list", n |-> 0, s |-> <<>>, l |-> l]
JObj(members) == [t |-> "obj", n |-> 0, s |-> <<>>, l |-> members]

\* dict.get(key, default)
RECURSIVE GetFrom(_, _, _, _)
GetFrom(members, key, default, i) ==
  IF i = 0 THEN default
  ELSE IF members[i].k = key THEN members[i].v
  ELSE GetFrom(members, key, default, i - 1)

Get(obj, key, default) == GetFrom(obj.l, key, default, Len(obj.l))

\* DocumentTypeEnum
FACTURA == B(<<"f", "a", "c", "t", "u", "r", "a">>)
INFORMACION == B(<<"i", "n", "f", "o", "r", "m", "a", "c", "i", "o", "n">>)
PENDIENTE == B(<<"p", "e", "n", "d", "i", "e", "n", "t", "e">>)

DocumentTypeEnum == { FACTURA, INFORMACION, PENDIENTE }

(***************************************************************************)
(* float() of a str: the value, in hundredths, of a plain decimal text     *)
(* (sign, digits, at most two decimals); the texts of the model are of     *)
(* that form whenever float() accepts them.                                *)
(***************************************************************************)
RECURSIVE DigitsValue(_, _, _, _)
DigitsValue(s, i, j, acc) ==
  IF i >= j THEN acc ELSE DigitsValue(s, i + 1, j, acc * 10 + (s[i] - 48))

\* s[i1..a-1] are the digits before the point, s[a+1..e-1] those after it
Hundredths(s, i1, a, e) ==
  100 * DigitsValue(s, i1, a, 0)
    + (IF e - a <= 1 THEN 0
       ELSE IF e - a = 2 THEN 10 * DigitsValue(s, a + 1, e, 0)
       ELSE DigitsValue(s, a + 1, a + 3, 0))

Signed(s, magnitude) ==
  IF s # <<>> /\ s[1] = MinusChar THEN 0 - magnitude ELSE magnitude

DecimalFrom(s, i1, a) ==
  Signed(s, Hundredths(s, i1, a, IF a <= Len(s) /\ s[a] = DotChar
                                 THEN DigitsEnd(s, a + 1) ELSE a))

DecimalAfterSign(s, i1) == DecimalFrom(s, i1, DigitsEnd(s, i1))

DecimalStripped(s) == DecimalAfterSign(s, SkipSign(s, 1))

DecimalValue(text) == DecimalStripped(Strip(text))

\* float(v) for a JSON value: ValueError for a str that is no number,
\* TypeError for None, a list or a dict
Float(v) ==
  IF v.t = "num" THEN [exc |-> "none", n |-> v.n]
  ELSE IF v.t = "str"
    THEN (IF IsFloatText(v.s) THEN [exc |-> "none", n |-> DecimalValue(v.s)]
          ELSE [exc |-> "ValueError", n |-> 0])
  ELSE [exc |-> "TypeError", n |-> 0]

(***************************************************************************)
(* The completion text.  It is a sequence of tokens: the fence "```json",  *)
(* the fence "```", white space, prose, or the text of one JSON value      *)
(* (k = "json", the value in v).  Prose and JSON texts hold no backtick.   *)
(***************************************************************************)
Tok(k) == [k |-> k, v |-> JNull]
JsonTok(v) == [k |-> "json", v |-> v]

RECURSIVE LStripTokens(_)
LStripTokens(ts) ==
  IF ts # <<>> /\ Head(ts).k = "ws" THEN LStripTokens(Tail(ts)) ELSE ts

RECURSIVE RStripTokens(_)
RStripTokens(ts) ==
  IF ts # <<>> /\ ts[Len(ts)].k = "ws"
  THEN RStripTokens(SubSeq(ts, 1, Len(ts) - 1)) ELSE ts

\* str.strip()
StripTokens(ts) == RStripTokens(LStripTokens(ts))

\* sep in text
Contains(ts, seps) == \E i \in 1..Len(ts) : ts[i].k \in seps

\* text.split(sep): the parts between the tokens that hold sep
RECURSIVE SplitTokens(_, _, _, _)
SplitTokens(ts, seps, cur, acc) ==
  IF ts = <<>> THEN Append(acc, cur)
  ELSE IF Head(ts).k \in seps THEN SplitTokens(Tail(ts), seps, <<>>, Append(acc, cur))
  ELSE SplitTokens(Tail(ts), seps, Append(cur, Head(ts)), acc)

Split(ts, seps) == SplitTokens(ts, seps, <<>>, <<>>)

\* "```json" occurs in the token "```json" only; "```" occurs in both fences
JsonFence == { "fence_json" }
AnyFence == { "fence_json", "fence" }

\* lines 378-381, 421-424, 484-487: the text inside the first fenced block
StripFence(ts) ==
  IF Contains(ts, JsonFence) THEN Split(Split(ts, JsonFence)[2], AnyFence)[1]
  ELSE IF Contains(ts, AnyFence) THEN Split(Split(ts, AnyFence)[2], AnyFence)[1]
  ELSE ts

\* json.loads: one JSON value with white space around it, anything else is
\* JSONDecodeError
JsonCore(core) ==
  IF Len(core) = 1 /\ core[1].k = "json"
  THEN [exc |-> "none", value |-> core[1].v]
  ELSE [exc |-> "JSONDecodeError", value |-> JNull]

JsonLoads(ts) == JsonCore(StripTokens(ts))

(***************************************************************************)
(* What the AI collaborator does on one call: it raises, or it answers     *)
(* with no choice, with a message without content, or with a text.         *)
(***************************************************************************)
Raises == [kind |-> "raise", content |-> <<>>]
NoChoices == [kind |-> "no_choices", content |-> <<>>]
NoContent == [kind |-> "no_content", content |-> <<>>]
Text(ts) == [kind |-> "text", content |-> ts]

\* lines 367-383 (and 410-426, 473-489): the call, choices[0].message
\* .content.strip(), the fence and json.loads; exc is the exception raised
CompletionJson(reply) ==
  IF reply.kind = "raise" THEN [exc |-> "APIError", value |-> JNull]
  ELSE IF reply.kind = "no_choices" THEN [exc |-> "IndexError", value |-> JNull]
  ELSE IF reply.kind = "no_content" THEN [exc |-> "AttributeError", value |-> JNull]
  ELSE JsonLoads(StripFence(StripTokens(reply.content)))

(***************************************************************************)
(* DocumentService._classify_document                                      *)
(***************************************************************************)
ClassifyFailed(e) == [exc |-> e, doc_type |-> <<>>, confidence |-> 0]

\* line 385 on: confidence = float(...), return doc_type, confidence
ClassifyConfidence(dt, cf) ==
  IF cf.exc # "none" THEN ClassifyFailed(cf.exc)
  ELSE [exc |-> "none", doc_type |-> dt.s, confidence |-> cf.n]

\* line 384 on: DocumentTypeEnum(value) raises ValueError for a value that
\* is not one of the three
ClassifyFields(dt, cf) ==
  IF dt.t # "str" \/ dt.s \notin DocumentTypeEnum THEN ClassifyFailed("ValueError")
  ELSE ClassifyConfidence(dt, Float(cf))

\* lines 384-385: result.get raises AttributeError when result is no dict
ClassifyParsed(parsed) ==
  IF parsed.exc # "none" THEN ClassifyFailed(parsed.exc)
  ELSE IF parsed.value.t # "obj" THEN ClassifyFailed("AttributeError")
  ELSE ClassifyFields(Get(parsed.value, "document_type", JStr(INFORMACION)),
                      Get(parsed.value, "confidence", JNum(50)))

\* lines 356-387: the body of the try; exc is the exception it raises
ClassifyTry(reply) == ClassifyParsed(CompletionJson(reply))

\* a fallback that gives up on the document
ClassifyFallback_Pendiente == [doc_type |-> PENDIENTE, confidence |-> 0]

\* line 391
ClassifyFallback == [doc_type |-> INFORMACION, confidence |-> 0]

\* an except clause that lets the exception go on
ClassifyExcept_Reraise(r) ==
  [raised |-> r.exc # "none", doc_type |-> r.doc_type, confidence |-> r.confidence]

\* lines 389-391: the except clause; raised says that an exception leaves
\* the method
ClassifyExcept(r) ==
  IF r.exc = "none"
  THEN [raised |-> FALSE, doc_type |-> r.doc_type, confidence |-> r.confidence]
  ELSE [raised |-> FALSE, doc_type |-> ClassifyFallback.doc_type,
        confidence |-> ClassifyFallback.confidence]

\* lines 348-391
classify_document(reply) == ClassifyExcept(ClassifyTry(reply))

(***************************************************************************)
(* The pydantic models of app/schemas/schemas.py: what the validation of   *)
(* a field makes of the value handed to the constructor.                   *)
(***************************************************************************)
\* Optional[float]: None and numbers pass, a str is parsed as a number
OptionalFloat(v) ==
  IF v.t = "null" \/ v.t = "num" THEN [ok |-> TRUE, v |-> v]
  ELSE IF v.t = "str" /\ IsFloatText(v.s)
    THEN [ok |-> TRUE, v |-> JNum(DecimalValue(v.s))]
  ELSE [ok |-> FALSE, v |-> JNull]

\* Optional[str]
OptionalStr(v) ==
  IF v.t = "null" \/ v.t = "str" THEN [ok |-> TRUE, v |-> v]
  ELSE [ok |-> FALSE, v |-> JNull]

\* str
RequiredStr(v) ==
  IF v.t = "str" THEN [ok |-> TRUE, v |-> v] ELSE [ok |-> FALSE, v |-> JNull]

\* List[str]
ListOfStr(v) ==
  IF v.t = "list" /\ \A i \in 1..Len(v.l) : v.l[i].t = "str"
  THEN [ok |-> TRUE, v |-> v] ELSE [ok |-> FALSE, v |-> JNull]

\* the InvoiceProduct model, schemas.py lines 156-161: ValidationError when
\* a field is refused
InvoiceProduct(quantity, name, unit_price, total) ==
  IF ~(quantity.ok /\ name.ok /\ unit_price.ok /\ total.ok)
  THEN [exc |-> "ValidationError", v |-> <<>>]
  ELSE [exc |-> "none",
        v |-> [quantity |-> quantity.v, name |-> name.v,
               unit_price |-> unit_price.v, total |-> total.v]]

\* lines 431-436: p.get raises AttributeError when p is no dict
Product(p) ==
  IF p.t # "obj" THEN [exc |-> "AttributeError", v |-> <<>>]
  ELSE InvoiceProduct(OptionalFloat(Get(p, "quantity", JNull)),
                      OptionalStr(Get(p, "name", JNull)),
                      OptionalFloat(Get(p, "unit_price", JNull)),
                      OptionalFloat(Get(p, "total", JNull)))

\* lines 429-436: the loop over result.get("products", [])
RECURSIVE Products(_, _, _)
RECURSIVE ProductsStep(_, _, _, _)
ProductsStep(ps, i, acc, p) ==
  IF p.exc # "none" THEN [exc |-> p.exc, v |-> <<>>]
  ELSE Products(ps, i + 1, Append(acc, p.v))

Products(ps, i, acc) ==
  IF i > Len(ps) THEN [exc |-> "none", v |-> acc]
  ELSE ProductsStep(ps, i, acc, Product(ps[i]))

\* what "for p in value" iterates: the elements of a list, the characters
\* of a str, the keys of a dict (they are str; their text plays no part)
Iterable(v) == v.t \in { "list", "str", "obj" }

Items(v) ==
  IF v.t = "list" THEN v.l
  ELSE IF v.t = "str" THEN [i \in 1..Len(v.s) |-> JStr(<< v.s[i] >>)]
  ELSE [i \in 1..Len(v.l) |-> JStr(<<>>)]

\* invoice_data = None, info_data = None
None == [present |-> FALSE]

MXN == B(<<"M", "X", "N">>)

(***************************************************************************)
(* DocumentService._extract_invoice_data                                   *)
(***************************************************************************)
InvoiceFailed(e) == [exc |-> e, data |-> None]

\* the InvoiceDataBase model, schemas.py lines 165-175
InvoiceDataBase(client_name, client_address, provider_name, provider_address, invoice_number, invoice_date, invoice_total, currency, products) ==
  IF ~(/\ client_name.ok /\ client_address.ok /\ provider_name.ok
       /\ provider_address.ok /\ invoice_number.ok /\ invoice_date.ok
       /\ invoice_total.ok /\ currency.ok)
  THEN InvoiceFailed("ValidationError")
  ELSE [exc |-> "none",
        data |-> [present |-> TRUE, client_name |-> client_name.v,
                  client_address |-> client_address.v,
                  provider_name |-> provider_name.v,
                  provider_address |-> provider_address.v,
                  invoice_number |-> invoice_number.v,
                  invoice_date |-> invoice_date.v,
                  invoice_total |-> invoice_total.v,
                  currency |-> currency.v, products |-> products]]

\* lines 438-448
InvoiceFields(result, products) ==
  IF products.exc # "none" THEN InvoiceFailed(products.exc)
  ELSE InvoiceDataBase(OptionalStr(Get(result, "client_name", JNull)),
                       OptionalStr(Get(result, "client_address", JNull)),
                       OptionalStr(Get(result, "provider_name", JNull)),
                       OptionalStr(Get(result, "provider_address", JNull)),
                       OptionalStr(Get(result, "invoice_number", JNull)),
                       OptionalStr(Get(result, "invoice_date", JNull)),
                       OptionalFloat(Get(result, "invoice_total", JNull)),
                       RequiredStr(Get(result, "currency", JStr(MXN))),
                       products.v)

\* lines 429-436: iterating None or a number raises TypeError
InvoiceProducts(result, listed) ==
  IF ~Iterable(listed) THEN InvoiceFailed("TypeError")
  ELSE InvoiceFields(result, Products(Items(listed), 1, <<>>))

\* line 430: result.get raises AttributeError when result is no dict
InvoiceParsed(parsed) ==
  IF parsed.exc # "none" THEN InvoiceFailed(parsed.exc)
  ELSE IF parsed.value.t # "obj" THEN InvoiceFailed("AttributeError")
  ELSE InvoiceProducts(parsed.value, Get(parsed.value, "products", JList(<<>>)))

\* lines 401-450: the body of the try; exc is the exception it raises
InvoiceTry(reply) == InvoiceParsed(CompletionJson(reply))

\* lines 393-454: the except clause returns None
extract_invoice_data(reply) == InvoiceTry(reply).data

(***************************************************************************)
(* DocumentService._extract_info_data                                      *)
(***************************************************************************)
InfoFailed(e) == [exc |-> e, data |-> None]

\* the InfoDataBase model, schemas.py lines 180-186
InfoDataBase(description, summary, sentiment, sentiment_score, key_topics) ==
  IF ~(/\ description.ok /\ summary.ok /\ sentiment.ok /\ sentiment_score.ok
       /\ key_topics.ok)
  THEN InfoFailed("ValidationError")
  ELSE [exc |-> "none",
        data |-> [present |-> TRUE, description |-> description.v,
                  summary |-> summary.v, sentiment |-> sentiment.v,
                  sentiment_score |-> sentiment_score.v,
                  key_topics |-> key_topics.v]]

\* lines 491-497: result.get raises AttributeError when result is no dict
InfoParsed(parsed) ==
  IF parsed.exc # "none" THEN InfoFailed(parsed.exc)
  ELSE IF parsed.value.t # "obj" THEN InfoFailed("AttributeError")
  ELSE InfoDataBase(OptionalStr(Get(parsed.value, "description", JNull)),
                    OptionalStr(Get(parsed.value, "summary", JNull)),
                    OptionalStr(Get(parsed.value, "sentiment", JNull)),
                    OptionalFloat(Get(parsed.value, "sentiment_score", JNull)),
                    ListOfStr(Get(parsed.value, "key_topics", JList(<<>>))))

\* lines 464-499: the body of the try; exc is the exception it raises
InfoTry(reply) == InfoParsed(CompletionJson(reply))

\* lines 456-503: the except clause returns None
extract_info_data(reply) == InfoTry(reply).data

(***************************************************************************)
(* The message sent to the AI                                              *)
(***************************************************************************)
\* the base64 alphabet
B64Char(n) ==
  IF n < 26 THEN 65 + n
  ELSE IF n < 52 THEN 97 + (n - 26)
  ELSE IF n < 62 THEN 48 + (n - 52)
  ELSE IF n = 62 THEN 43
  ELSE 47

\* base64.b64encode(file_content).decode("utf-8")
RECURSIVE B64Encode(_, _)
B64Encode(bytes, i) ==
  IF i > Len(bytes) THEN <<>>
  ELSE LET n == Len(bytes) - i + 1
           b1 == bytes[i]
           b2 == IF n >= 2 THEN bytes[i + 1] ELSE 0
           b3 == IF n >= 3 THEN bytes[i + 2] ELSE 0
       IN << B64Char(b1 \div 4),
             B64Char((b1 % 4) * 16 + (b2 \div 16)),
             IF n >= 2 THEN B64Char((b2 % 16) * 4 + (b3 \div 64)) ELSE 61,
             IF n >= 3 THEN B64Char(b3 % 64) ELSE 61 >>
          \o B64Encode(bytes, i + 3)

\* DocumentService._encode_image_to_base64
encode_image_to_base64(bytes, ctype) ==
  B(<<"d", "a", "t", "a", ":">>) \o ctype \o B(<<";", "b", "a", "s", "e", "6", "4", ",">>) \o B64Encode(bytes, 1)

\* text[:n]
Prefix(text, n) == SubSeq(text, 1, IF Len(text) < n THEN Len(text) ELSE n)

\* str.startswith
StartsWith(text, prefix) ==
  Len(text) >= Len(prefix) /\ SubSeq(text, 1, Len(prefix)) = prefix

\* lines 360-364, 404-408, 467-471: the part of user_message after the
\* instruction; limit is 4000 or 8000
UserContent(bytes, ctype, text, image, limit) ==
  IF image THEN encode_image_to_base64(bytes, ctype) ELSE Prefix(text, limit)

\* one call of client.chat.completions.create and what came back
AiCall(op, content, reply) == [op |-> op, content |-> content, reply |-> reply]

\* DocumentService._is_ai_available with a client that ignores the key
is_ai_available_ClientOnly(c, key) == c # "None"

\* DocumentService._is_ai_available: self.client is not None and
\* settings.openai_api_key
is_ai_available(c, key) == c # "None" /\ key # <<>>

\* the DocumentAnalysisResult model, schemas.py lines 259-265
DocumentAnalysisResult(dt, cf, inv, inf, text) ==
  [returned |-> TRUE, document_type |-> dt, confidence |-> cf,
   invoice_data |-> inv, info_data |-> inf, raw_text |-> text]

NoAnalysis ==
  [returned |-> FALSE, document_type |-> <<>>, confidence |-> 0,
   invoice_data |-> None, info_data |-> None, raw_text |-> <<>>]

NotConfigured == B(<<"A", "I", " ", "s", "e", "r", "v", "i", "c", "e", " ", "n", "o", "t", " ", "c", "o", "n", "f", "i", "g", "u", "r", "e", "d", ".", " ", "P", "l", "e", "a", "s", "e", " ", "s", "e", "t", " ", "O", "P", "E", "N", "A", "I", "_", "A", "P", "I", "_", "K", "E", "Y", ".">>)

\* line 270 with the test dropped
ExtractionFor_AlwaysInfo(dt) == "info"

\* lines 270 and 275: which extraction follows the classification
ExtractionFor(dt) == IF dt = FACTURA THEN "invoice" ELSE "info"

(***************************************************************************)
(* Inputs of analyze_document and the answers of its collaborators         *)
(***************************************************************************)
\* the most products an extraction answer lists
MaxProducts == 1

ApplicationPdf == B(<<"a", "p", "p", "l", "i", "c", "a", "t", "i", "o", "n", "/", "p", "d", "f">>)
ImagePrefix == B(<<"i", "m", "a", "g", "e", "/">>)

ContentTypes == { ApplicationPdf, B(<<"i", "m", "a", "g", "e", "/", "p", "n", "g">>), B(<<"a", "p", "p", "l", "i", "c", "a", "t", "i", "o", "n", "/", "o", "c", "t", "e", "t", "-", "s", "t", "r", "e", "a", "m">>) }

DocContents == { <<>>, B(<<"%", "P", "D", "F">>) }

\* s3_key = None, or the key of the stored blob
S3Keys == { "None", "documents/{user_id}/{timestamp}_{unique_id}.pdf" }

\* PyPDF2: PdfReader or extract_text raises, or the pages give a text
PdfOutcomes ==
  { [raises |-> TRUE, text |-> <<>>], [raises |-> FALSE, text |-> <<>>],
    [raises |-> FALSE, text |-> B(<<" ", "F", "a", "c", "t", "u", "r", "a", " ", "1", " ", "\n">>)] }

\* a member that the answer leaves out
Missing == [t |-> "missing", n |-> 0, s |-> <<>>, l |-> <<>>]

Member(k, v) == [k |-> k, v |-> v]

Object(members) == JObj(SelectSeq(members, LAMBDA m : m.v # Missing))

\* the texts an answer can wrap a JSON value in
Wrappings(v) ==
  { << JsonTok(v) >>,
    << Tok("ws"), JsonTok(v), Tok("ws") >>,
    << Tok("fence_json"), Tok("ws"), JsonTok(v), Tok("ws"), Tok("fence") >>,
    << Tok("fence"), JsonTok(v), Tok("fence") >>,
    << Tok("prose"), Tok("ws"), Tok("fence_json"), JsonTok(v), Tok("fence"),
       Tok("prose") >>,
    << Tok("prose"), JsonTok(v) >> }

\* answers no operation can use
FailingReplies ==
  { Raises, NoChoices, NoContent, Text(<<>>), Text(<< Tok("prose") >>),
    Text(<< JsonTok(JList(<<>>)) >>),
    Text(<< Tok("fence_json"), Tok("prose"), Tok("fence") >>) }

DocTypeReplies ==
  { Missing, JNull, JStr(FACTURA), JStr(INFORMACION), JStr(PENDIENTE),
    JStr(B(<<"r", "e", "c", "i", "b", "o">>)) }

ConfidenceReplies ==
  { Missing, JNull, JNum(90), JNum(150), JNum(0 - 20), JStr(B(<<"0", ".", "9">>)),
    JStr(B(<<"h", "i", "g", "h">>)) }

ClassifyObject(dt, cf) ==
  Object(<< Member("document_type", dt), Member("confidence", cf) >>)

ClassifyReplies ==
  FailingReplies
    \cup { Text(<< JsonTok(ClassifyObject(dt, cf)) >>) :
             dt \in DocTypeReplies, cf \in ConfidenceReplies }
    \cup { Text(w) : w \in Wrappings(ClassifyObject(JStr(FACTURA), JNum(90))) }

GoodProduct ==
  Object(<< Member("quantity", JNum(200)), Member("name", JStr(B(<<"W", "i", "d", "g", "e", "t">>))),
            Member("unit_price", JNum(525)), Member("total", JNum(1050)) >>)

TextPriceProduct ==
  Object(<< Member("quantity", JNum(200)), Member("name", JStr(B(<<"W", "i", "d", "g", "e", "t">>))),
            Member("unit_price", JStr(B(<<"n", "/", "a">>))), Member("total", JNum(1050)) >>)

ProductReplies == { GoodProduct, TextPriceProduct, JStr(B(<<"W", "i", "d", "g", "e", "t">>)) }

RECURSIVE ProductLists(_)
ProductLists(n) ==
  IF n = 0 THEN { <<>> }
  ELSE { <<>> } \cup { <<p>> \o l : p \in ProductReplies, l \in ProductLists(n - 1) }

ProductsReplies == { Missing, JNull } \cup { JList(l) : l \in ProductLists(MaxProducts) }

ClientNameReplies == { Missing, JStr(B(<<"A", "C", "M", "E">>)) }

InvoiceTotalReplies == { Missing, JNull, JNum(10050), JStr(B(<<"1", "0", "0", ".", "5">>)), JStr(B(<<"a", "b", "c">>)) }

CurrencyReplies == { Missing, JNull, JStr(B(<<"U", "S", "D">>)) }

InvoiceObject(cn, it, cur, ps) ==
  Object(<< Member("client_name", cn), Member("invoice_total", it),
            Member("currency", cur), Member("products", ps) >>)

InvoiceReplies ==
  FailingReplies
    \cup { Text(<< JsonTok(InvoiceObject(cn, it, cur, ps)) >>) :
             cn \in ClientNameReplies, it \in InvoiceTotalReplies,
             cur \in CurrencyReplies, ps \in ProductsReplies }

DescriptionReplies == { Missing, JStr(B(<<"c", "a", "r", "t", "a">>)) }

SentimentReplies == { Missing, JStr(B(<<"p", "o", "s", "i", "t", "i", "v", "o">>)) }

SentimentScoreReplies == { Missing, JNull, JNum(50), JStr(B(<<"a", "b", "c">>)) }

KeyTopicsReplies == { Missing, JNull, JList(<< JStr(B(<<"t", "e", "m", "a">>)) >>) }

InfoObject(d, s, sc, kt) ==
  Object(<< Member("description", d), Member("sentiment", s),
            Member("sentiment_score", sc), Member("key_topics", kt) >>)

InfoReplies ==
  FailingReplies
    \cup { Text(<< JsonTok(InfoObject(d, s, sc, kt)) >>) :
             d \in DescriptionReplies, s \in SentimentReplies,
             sc \in SentimentScoreReplies, kt \in KeyTopicsReplies }

(***************************************************************************)
(* Inputs.  A file is a header line followed by at most MaxRows lines of   *)
(* the menu, or no bytes at all.                                           *)
(***************************************************************************)
MaxRows == 3

HeaderLines ==
  { B(<<"n", "a", "m", "e", ",", "p", "r", "e", "c", "i", "o", "\n">>),
    B(<<"N", "a", "m", "e", ",", "P", "R", "E", "C", "I", "O", "\n">>),
    B(<<"\n">>),
    B(<<"a", "\r", "b", "\n">>) }

RowLines ==
  { B(<<"A", ",", "1", "\n">>),
    B(<<"A", ",", ",", "\n">>),
    B(<<"A", ",", "x", ",", "\n">>),
    <<233, 10>>,
    B(<<"x", "|", "p", "r", "e", "c", "i", "o", ":", "y", ",", "1", "\n">>),
    B(<<"x", ",", "y", "|", "p", "r", "e", "c", "i", "o", ":", "1", "\n">>),
    B(<<"B", ",", "\"", "1", ",", "5", "\"", "\r", "\n">>),
    B(<<"A", ",", " ", "\n">>),
    B(<<"A", "\r", "B", "\n">>),
    B(<<"\n">>) }

RECURSIVE Bodies(_)
Bodies(n) ==
  IF n = 0 THEN { <<>> }
  ELSE { <<>> } \cup { r \o b : r \in RowLines, b \in Bodies(n - 1) }

\* a file whose two columns are not in numeric_columns, so that every
\* non-blank cell is a valid cell
PlainHeader == B(<<"a", ",", "b", "\n">>)

PlainRowLines ==
  { B(<<"x", "|", "b", ":", "y", ",", "z", "\n">>),
    B(<<"x", ",", "y", "|", "b", ":", "z", "\n">>),
    B(<<"p", ",", "q", "\n">>) }

RECURSIVE PlainBodies(_)
PlainBodies(n) ==
  IF n = 0 THEN { <<>> }
  ELSE { <<>> } \cup { r \o b : r \in PlainRowLines, b \in PlainBodies(n - 1) }

Contents ==
  { <<>> } \cup { h \o b : h \in HeaderLines, b \in Bodies(MaxRows) }
           \cup { PlainHeader \o b : b \in PlainBodies(MaxRows) }

Filenames ==
  { <<>>, B(<<"d", ".", "C", "S", "V">>), B(<<"d", ".", "t", "x", "t">>) }

TestName == B(<<"t", "e", "s", "t", ".", "c", "s", "v">>)

Callers == { "direct", "upload_csv_file" }

S3Key == "uploads/{user_id}/{timestamp}_{unique_id}.csv"

(***************************************************************************)
(* State                                                                   *)
(***************************************************************************)
VARIABLES
  caller,          \* who calls validate_and_process: a direct caller or the handler
  filename,        \* file.filename
  file_content,    \* the uploaded bytes
  pc,              \* the statement about to run
  lines,           \* the lines of io.StringIO(content), fed to the csv reader
  line_idx,        \* the next line the reader fetches
  fieldnames,      \* reader.fieldnames
  row_num,         \* enumerate(reader, start=2)
  row,             \* the row the for statement bound
  rows,            \* rows
  validations,     \* validations
  seen_hashes,     \* seen_hashes: fingerprint -> first row number
  exc,             \* the exception in flight, "none" if none
  caught,          \* e, the exception an except clause bound, "none" if none
  result,          \* what validate_and_process returned
  s3_objects,      \* the object store: the set of [key, body] put
  uploaded_files,  \* table uploaded_files
  csv_data,        \* table csv_data
  file_validations,\* table file_validations
  response,        \* the HTTP response of upload_csv_file
  hash_in,         \* two dicts handed to _compute_row_hash directly
  hash_out,        \* what _compute_row_hash returned for each
  current,         \* the call of validate_and_process that is running: 1 or 2
  other,           \* the frame of the call that is not running
  client,          \* DocumentService.client: "None" or the AsyncOpenAI client
  openai_api_key,  \* settings.openai_api_key
  doc_file_content,\* analyze_document: file_content
  content_type,    \* analyze_document: content_type
  s3_key,          \* analyze_document: s3_key
  dpc,             \* the statement of analyze_document about to run
  raw_text,        \* raw_text
  is_image,        \* is_image
  doc_type,        \* doc_type
  confidence,      \* confidence, in hundredths
  invoice_data,    \* invoice_data
  info_data,       \* info_data
  ai_calls,        \* the calls of client.chat.completions.create, in order
  pdf_calls,       \* the calls of PyPDF2 and what each did
  db_log,          \* the statements sent to the database session, in order
  analysis,        \* what analyze_document returned
  bucket_exists,   \* the object store: whether the bucket is there
  s3_ops,          \* the number of S3Service operations called so far
  s3_result,       \* the last S3Service operation: its client calls and its outcome
  document,        \* table documents: the row of the uploaded document
  invoice_rows,    \* table invoice_data: the rows of the document
  info_rows,       \* table info_data: the rows of the document
  event_log,       \* table event_logs: the events of the document, in order
  reqs,            \* the requests of upload_document and reanalyze_document
  run              \* how the requests ran: whether two overlapped, the last to finish

vars ==
  <<caller, filename, file_content, pc, lines, line_idx, fieldnames, row_num,
    row, rows, validations, seen_hashes, exc, caught, result, s3_objects,
    uploaded_files, csv_data, file_validations, response, hash_in, hash_out,
    current, other, client, openai_api_key, doc_file_content, content_type,
    s3_key, dpc, raw_text, is_image, doc_type, confidence, invoice_data,
    info_data, ai_calls, pdf_calls, db_log, analysis, bucket_exists, s3_ops,
    s3_result, document, invoice_rows, info_rows, event_log, reqs, run>>

engineVars ==
  <<lines, line_idx, fieldnames, row_num, row, rows, validations, seen_hashes,
    exc, caught, result>>

hashVars == <<hash_in, hash_out>>

storeVars == <<s3_objects, uploaded_files, csv_data, file_validations>>

inputVars == <<caller, filename, file_content>>

concVars == <<current, other>>

docVars ==
  <<client, openai_api_key, doc_file_content, content_type, s3_key, dpc,
    raw_text, is_image, doc_type, confidence, invoice_data, info_data,
    ai_calls, pdf_calls, db_log, analysis>>

docInputs == <<client, openai_api_key, doc_file_content, content_type, s3_key>>

\* the object store, the tables of documents.py and its requests
svcVars ==
  <<bucket_exists, s3_ops, s3_result, document, invoice_rows, info_rows,
    event_log, reqs, run>>

\* no S3Service operation was called
NoS3Result == [op |-> "none", calls |-> <<>>, raised |-> FALSE, ok |-> FALSE, body |-> <<>>, error |-> "none"]

\* no request has run
NoRun == [overlap |-> FALSE, last |-> 0]

\* no row in table documents
NoDocument == [exists |-> FALSE, analysis_status |-> "none", document_type |-> <<>>]

\* no S3Service call and no request of documents.py
SvcIdle ==
  /\ bucket_exists = TRUE
  /\ s3_ops = 0
  /\ s3_result = NoS3Result
  /\ document = NoDocument
  /\ invoice_rows = 0
  /\ info_rows = 0
  /\ event_log = <<>>
  /\ reqs = <<>>
  /\ run = NoRun

\* the locals of analyze_document and the traces, before the call
DocFresh ==
  /\ raw_text = <<>>
  /\ is_image = FALSE
  /\ doc_type = <<>>
  /\ confidence = 0
  /\ invoice_data = None
  /\ info_data = None
  /\ ai_calls = <<>>
  /\ pdf_calls = <<>>
  /\ db_log = <<>>
  /\ analysis = NoAnalysis

\* no document is being analysed
DocIdle ==
  /\ client = "None"
  /\ openai_api_key = <<>>
  /\ doc_file_content = <<>>
  /\ content_type = <<>>
  /\ s3_key = "None"
  /\ dpc = "idle"
  /\ DocFresh

NoResponse == [status |-> 0, validations |-> <<>>, errors |-> <<>>, row_count |-> 0]

NoResult == [returned |-> FALSE, rows |-> <<>>, validations |-> <<>>]

NoHashes == [a |-> [called |-> FALSE], b |-> [called |-> FALSE]]

\* everything but the inputs and the position, as it is before a call
Fresh ==
  /\ lines = <<>>
  /\ line_idx = 1
  /\ fieldnames = <<>>
  /\ row_num = 1
  /\ row = <<>>
  /\ rows = <<>>
  /\ validations = <<>>
  /\ seen_hashes = <<>>
  /\ exc = "none"
  /\ caught = "none"
  /\ result = NoResult
  /\ s3_objects = {}
  /\ uploaded_files = <<>>
  /\ csv_data = <<>>
  /\ file_validations = <<>>
  /\ response = NoResponse
  /\ hash_out = NoHashes

\* the locals of a call of validate_and_process that has not started
NewFrame(content, name) ==
  [file_content |-> content, filename |-> name, pc |-> "decode", lines |-> <<>>,
   line_idx |-> 1, fieldnames |-> <<>>, row_num |-> 1, row |-> <<>>,
   rows |-> <<>>, validations |-> <<>>, seen_hashes |-> <<>>, exc |-> "none",
   caught |-> "none", result |-> NoResult]

\* there is no second call
NoFrame == [NewFrame(<<>>, <<>>) EXCEPT !.pc = "none"]

Init ==
  /\ caller \in Callers
  /\ file_content \in Contents
  /\ filename \in (IF caller = "direct" THEN { TestName } ELSE Filenames)
  /\ pc = IF caller = "direct" THEN "decode" ELSE "precheck"
  /\ hash_in = [a |-> <<>>, b |-> <<>>]
  /\ current = 1
  /\ other = NoFrame
  /\ Fresh
  /\ DocIdle
  /\ SvcIdle

(***************************************************************************)
(* CSVService.validate_and_process                                         *)
(***************************************************************************)
\* lines 28-39: validations = [], rows = [], decode, create the reader
DecodeContent ==
  /\ pc = "decode"
  /\ lines' = SplitLines(Decode(file_content))
  /\ line_idx' = 1
  /\ rows' = <<>>
  /\ validations' = <<>>
  /\ pc' = "fieldnames"
  /\ UNCHANGED <<inputVars, hashVars, concVars, docVars, svcVars, fieldnames, row_num, row, seen_hashes,
                 exc, caught, result, storeVars, response>>

\* the header check without its early return (line 47)
CheckFieldnames_NoReturn ==
  /\ pc = "fieldnames"
  /\ LET r == ReaderNext(lines, line_idx)
     IN /\ line_idx' = r.idx
        /\ IF r.kind = "error"
           THEN /\ exc' = "csv.Error"
                /\ pc' = "except"
                /\ UNCHANGED <<fieldnames, validations, seen_hashes>>
           ELSE IF r.kind = "stop" \/ r.fields = <<>>
           THEN /\ validations' = Append(validations, StructureError)
                /\ pc' = "empty_check"
                /\ UNCHANGED <<fieldnames, seen_hashes, exc>>
           ELSE /\ fieldnames' = r.fields
                /\ seen_hashes' = <<>>
                /\ pc' = "for"
                /\ UNCHANGED <<validations, exc>>
  /\ UNCHANGED <<inputVars, hashVars, concVars, docVars, svcVars, lines, row_num, row, rows, caught, result,
                 storeVars, response>>

\* lines 41-50: reader.fieldnames reads the first record
CheckFieldnames ==
  /\ pc = "fieldnames"
  /\ LET r == ReaderNext(lines, line_idx)
     IN /\ line_idx' = r.idx
        /\ IF r.kind = "error"
           THEN /\ exc' = "csv.Error"
                /\ pc' = "except"
                /\ UNCHANGED <<fieldnames, validations, seen_hashes>>
           ELSE IF r.kind = "stop" \/ r.fields = <<>>
           THEN /\ validations' = Append(validations, StructureError)
                /\ pc' = "return"
                /\ UNCHANGED <<fieldnames, seen_hashes, exc>>
           ELSE /\ fieldnames' = r.fields
                /\ seen_hashes' = <<>>
                /\ pc' = "for"
                /\ UNCHANGED <<validations, exc>>
  /\ UNCHANGED <<inputVars, hashVars, concVars, docVars, svcVars, lines, row_num, row, rows, caught, result,
                 storeVars, response>>

\* line 52: the for statement asks the DictReader for the next row
NextRow ==
  /\ pc = "for"
  /\ LET r == DictReaderNext(fieldnames, lines, line_idx)
     IN /\ line_idx' = r.idx
        /\ IF r.kind = "error"
           THEN /\ exc' = "csv.Error"
                /\ pc' = "except"
                /\ UNCHANGED <<row, row_num>>
           ELSE IF r.kind = "stop"
           THEN /\ pc' = "empty_check"
                /\ UNCHANGED <<row, row_num, exc>>
           ELSE /\ row' = r.row
                /\ row_num' = row_num + 1
                /\ pc' = "body"
                /\ UNCHANGED exc
  /\ UNCHANGED <<inputVars, hashVars, concVars, docVars, svcVars, lines, fieldnames, rows, validations,
                 seen_hashes, caught, result, storeVars, response>>

\* a body that appends the row only after its hash was computed
ProcessRow_HashFirst ==
  /\ pc = "body"
  /\ \E h \in { compute_row_hash(row) } :
       IF h.raised
       THEN /\ exc' = "TypeError"
            /\ pc' = "except"
            /\ UNCHANGED <<rows, validations, seen_hashes>>
       ELSE /\ rows' = Append(rows, row)
            /\ seen_hashes' = IF h.hash \in DOMAIN seen_hashes THEN seen_hashes
                              ELSE seen_hashes @@ (h.hash :> row_num)
            /\ validations' =
                 validations
                 \o (IF h.hash \in DOMAIN seen_hashes
                     THEN <<DuplicateRow(row_num, seen_hashes[h.hash])>> ELSE <<>>)
                 \o ValidateColumns(row, 1, row_num)
            /\ pc' = "for"
            /\ UNCHANGED exc
  /\ UNCHANGED <<inputVars, hashVars, concVars, docVars, svcVars, lines, line_idx, fieldnames, row_num, row,
                 caught, result, storeVars, response>>

\* lines 53-89: the body of the for statement
ProcessRow ==
  /\ pc = "body"
  /\ rows' = Append(rows, row)
  /\ LET h == compute_row_hash(row)
         seen == h.hash \in DOMAIN seen_hashes
         dup == IF seen THEN <<DuplicateRow(row_num, seen_hashes[h.hash])>> ELSE <<>>
     IN IF h.raised
        THEN /\ exc' = "TypeError"
             /\ pc' = "except"
             /\ UNCHANGED <<validations, seen_hashes>>
        ELSE /\ seen_hashes' = IF seen THEN seen_hashes
                               ELSE seen_hashes @@ (h.hash :> row_num)
             /\ validations' = validations \o dup \o ValidateColumns(row, 1, row_num)
             /\ pc' = "for"
             /\ UNCHANGED exc
  /\ UNCHANGED <<inputVars, hashVars, concVars, docVars, svcVars, lines, line_idx, fieldnames, row_num, row,
                 caught, result, storeVars, response>>

\* the check without its "if not rows"
CheckEmptyFile_Always ==
  /\ pc = "empty_check"
  /\ validations' = Append(validations, EmptyFile)
  /\ pc' = "return"
  /\ UNCHANGED <<inputVars, hashVars, concVars, docVars, svcVars, lines, line_idx, fieldnames, row_num, row,
                 rows, seen_hashes, exc, caught, result, storeVars, response>>

\* lines 91-96
CheckEmptyFile ==
  /\ pc = "empty_check"
  /\ validations' = IF rows = <<>> THEN Append(validations, EmptyFile) ELSE validations
  /\ pc' = "return"
  /\ UNCHANGED <<inputVars, hashVars, concVars, docVars, svcVars, lines, line_idx, fieldnames, row_num, row,
                 rows, seen_hashes, exc, caught, result, storeVars, response>>

\* lines 98-109: the except clauses
HandleException ==
  /\ pc = "except"
  /\ LET clause == ExceptClause(exc)
     IN IF clause = "parse_error"
        THEN /\ validations' = Append(validations, ParseError)
             /\ caught' = exc
             /\ exc' = "none"
             /\ pc' = "return"
        ELSE IF clause = "unknown_error"
        THEN /\ validations' = Append(validations, UnknownError(exc))
             /\ caught' = exc
             /\ exc' = "none"
             /\ pc' = "return"
        ELSE /\ pc' = "raised"
             /\ UNCHANGED <<validations, exc, caught>>
  /\ UNCHANGED <<inputVars, hashVars, concVars, docVars, svcVars, lines, line_idx, fieldnames, row_num, row,
                 rows, seen_hashes, result, storeVars, response>>

\* lines 47 and 111: return rows, validations
Return ==
  /\ pc = "return"
  /\ result' = [returned |-> TRUE, rows |-> rows, validations |-> validations]
  /\ pc' = IF caller = "direct" THEN "done" ELSE "critical"
  /\ UNCHANGED <<inputVars, hashVars, concVars, docVars, svcVars, lines, line_idx, fieldnames, row_num, row,
                 rows, validations, seen_hashes, exc, caught, storeVars, response>>

(***************************************************************************)
(* S3Service.upload_file: put_object stores the blob, or raises the        *)
(* ClientError that upload_file turns into success = False.                *)
(***************************************************************************)
upload_file(put_ok, objects, key, body) ==
  IF put_ok
  THEN [success |-> TRUE,
        objects |-> { o \in objects : o.key # key } \cup { [key |-> key, body |-> body] }]
  ELSE [success |-> FALSE, objects |-> objects]

(***************************************************************************)
(* upload_csv_file                                                         *)
(***************************************************************************)
HttpError(status, errors) ==
  [status |-> status, validations |-> <<>>, errors |-> errors, row_count |-> 0]

\* lines 55-92: reject with 400 or 413, or call validate_and_process
UploadPrecheck ==
  /\ pc = "precheck"
  /\ LET st == PrecheckStatus(filename, file_content)
     IN IF st # 0
        THEN /\ response' = HttpError(st, <<>>)
             /\ pc' = "done"
        ELSE /\ pc' = "decode"
             /\ UNCHANGED response
  /\ UNCHANGED <<inputVars, hashVars, concVars, docVars, svcVars, engineVars, storeVars>>

\* lines 95-103: reject with 422 when a validation has severity error
CheckCritical ==
  /\ pc = "critical"
  /\ LET critical_errors == CriticalErrors(result.validations)
     IN IF critical_errors # <<>>
        THEN /\ response' = HttpError(422, critical_errors)
             /\ pc' = "done"
        ELSE /\ pc' = "s3_upload"
             /\ UNCHANGED response
  /\ UNCHANGED <<inputVars, hashVars, concVars, docVars, svcVars, engineVars, storeVars>>

\* lines 106-117
S3Upload ==
  /\ pc = "s3_upload"
  /\ \E put_ok \in BOOLEAN :
       LET upload_result == upload_file(put_ok, s3_objects, S3Key, file_content)
       IN /\ s3_objects' = upload_result.objects
          /\ IF ~upload_result.success
             THEN /\ response' = HttpError(500, <<>>)
                  /\ pc' = "done"
             ELSE /\ pc' = "create_file"
                  /\ UNCHANGED response
  /\ UNCHANGED <<inputVars, hashVars, concVars, docVars, svcVars, engineVars, uploaded_files, csv_data, file_validations>>

\* lines 120-135: the UploadedFile record is added and committed
CreateFileRecord ==
  /\ pc = "create_file"
  /\ uploaded_files' =
       Append(uploaded_files,
              [id |-> Len(uploaded_files) + 1, original_filename |-> filename,
               s3_key |-> S3Key, file_size |-> Len(file_content),
               row_count |-> Len(result.rows), upload_status |-> "processing"])
  /\ pc' = "store"
  /\ UNCHANGED <<inputVars, hashVars, concVars, docVars, svcVars, engineVars, s3_objects, csv_data, file_validations, response>>

\* lines 138-161: the rows and the validations are added, the status is set
\* and all of it is committed
StoreData ==
  /\ pc = "store"
  /\ LET id == Len(uploaded_files)
         json_rows == rows_to_json(result.rows)
     IN /\ csv_data' = csv_data \o
             [i \in 1..Len(json_rows) |->
                [uploaded_file_id |-> id, row_number |-> i, data |-> json_rows[i]]]
        /\ file_validations' = file_validations \o
             [i \in 1..Len(result.validations) |->
                [uploaded_file_id |-> id, validation |-> result.validations[i]]]
        /\ uploaded_files' = [uploaded_files EXCEPT ![id].upload_status = "completed"]
  /\ pc' = "respond"
  /\ UNCHANGED <<inputVars, hashVars, concVars, docVars, svcVars, engineVars, s3_objects, response>>

\* lines 163-176
Respond ==
  /\ pc = "respond"
  /\ response' = [status |-> 201, validations |-> result.validations,
                  errors |-> <<>>, row_count |-> Len(result.rows)]
  /\ pc' = "done"
  /\ UNCHANGED <<inputVars, hashVars, concVars, docVars, svcVars, engineVars, storeVars>>

Next ==
  \/ DecodeContent
  \/ CheckFieldnames
  \/ NextRow
  \/ ProcessRow
  \/ CheckEmptyFile
  \/ HandleException
  \/ Return
  \/ UploadPrecheck
  \/ CheckCritical
  \/ S3Upload
  \/ CreateFileRecord
  \/ StoreData
  \/ Respond

Spec == Init /\ [][Next]_vars

(***************************************************************************)
(* Direct calls of _compute_row_hash on two dicts that hold the same items *)
(* in any two insertion orders.                                            *)
(***************************************************************************)
MaxCols == 3

HashKeys ==
  { PyStr(B(<<"n", "a", "m", "e">>)), PyStr(B(<<"p", "r", "e", "c", "i", "o">>)),
    PyStr(B(<<"c", "a", "n", "t", "i", "d", "a", "d">>)), PyNone }

HashValues == { PyStr(B(<<"A">>)), PyStr(B(<<"1", "0">>)), PyNone }

\* the sets of items a dict of at most MaxCols keys can hold
ItemSets ==
  UNION { { { [k |-> k, v |-> f[k]] : k \in K } : f \in [K -> HashValues] } :
          K \in { X \in SUBSET HashKeys : X # {} /\ Cardinality(X) <= MaxCols } }

RECURSIVE Orderings(_)
Orderings(S) ==
  IF S = {} THEN { <<>> }
  ELSE UNION { { <<x>> \o o : o \in Orderings(S \ { x }) } : x \in S }

InitHash ==
  /\ \E items \in ItemSets :
       hash_in \in [a : Orderings(items), b : Orderings(items)]
  /\ caller = "direct"
  /\ file_content = <<>>
  /\ filename = TestName
  /\ pc = "done"
  /\ current = 1
  /\ other = NoFrame
  /\ Fresh
  /\ DocIdle
  /\ SvcIdle

HashFirst ==
  /\ ~hash_out.a.called
  /\ hash_out' = [hash_out EXCEPT !.a = [called |-> TRUE,
                                          value |-> compute_row_hash(hash_in.a)]]
  /\ UNCHANGED <<inputVars, pc, concVars, docVars, svcVars, engineVars, storeVars, response, hash_in>>

HashSecond ==
  /\ hash_out.a.called
  /\ ~hash_out.b.called
  /\ hash_out' = [hash_out EXCEPT !.b = [called |-> TRUE,
                                          value |-> compute_row_hash(hash_in.b)]]
  /\ UNCHANGED <<inputVars, pc, concVars, docVars, svcVars, engineVars, storeVars, response, hash_in>>

NextHash ==
  \/ HashFirst
  \/ HashSecond

SpecHash == InitHash /\ [][NextHash]_vars

(***************************************************************************)
(* Two calls of validate_and_process on the one CSVService that             *)
(* get_csv_service returns, run by two threads.  The variables of the      *)
(* engine are the locals of the running call; a thread switch parks them   *)
(* in other and resumes the locals of the other call.  What the instance   *)
(* holds, numeric_columns, is assigned in __init__ only.                   *)
(***************************************************************************)
MaxConcRows == 2

ConcHeader == B(<<"n", "a", "m", "e", ",", "p", "r", "e", "c", "i", "o", "\n">>)

ConcRowLines ==
  { B(<<"A", ",", "1", "\n">>),
    B(<<"B", ",", "x", "\n">>),
    B(<<"A", ",", ",", "\n">>) }

RECURSIVE ConcBodies(_)
ConcBodies(n) ==
  IF n = 0 THEN { <<>> }
  ELSE { <<>> } \cup { r \o b : r \in ConcRowLines, b \in ConcBodies(n - 1) }

ConcContents == { <<>> } \cup { ConcHeader \o b : b \in ConcBodies(MaxConcRows) }

\* the locals of the running call
Frame ==
  [file_content |-> file_content, filename |-> filename, pc |-> pc,
   lines |-> lines, line_idx |-> line_idx, fieldnames |-> fieldnames,
   row_num |-> row_num, row |-> row, rows |-> rows,
   validations |-> validations, seen_hashes |-> seen_hashes, exc |-> exc,
   caught |-> caught, result |-> result]

InitConc ==
  /\ caller = "direct"
  /\ file_content \in ConcContents
  /\ filename = TestName
  /\ pc = "decode"
  /\ hash_in = [a |-> <<>>, b |-> <<>>]
  /\ current = 1
  /\ \E content \in ConcContents : other = NewFrame(content, TestName)
  /\ Fresh
  /\ DocIdle
  /\ SvcIdle

\* a switch with the duplicate-tracking table kept on the instance
Switch_SharedSeenHashes ==
  /\ other.pc \notin { "none", "done" }
  /\ current' = 3 - current
  /\ other' = Frame
  /\ file_content' = other.file_content
  /\ filename' = other.filename
  /\ pc' = other.pc
  /\ lines' = other.lines
  /\ line_idx' = other.line_idx
  /\ fieldnames' = other.fieldnames
  /\ row_num' = other.row_num
  /\ row' = other.row
  /\ rows' = other.rows
  /\ validations' = other.validations
  /\ exc' = other.exc
  /\ caught' = other.caught
  /\ result' = other.result
  /\ UNCHANGED <<caller, hashVars, docVars, svcVars, storeVars, response, seen_hashes>>

\* the interpreter hands control to the other thread: every local of
\* validate_and_process (lines 28-111), seen_hashes of line 50 among them,
\* belongs to the call
Switch ==
  /\ other.pc \notin { "none", "done" }
  /\ current' = 3 - current
  /\ other' = Frame
  /\ file_content' = other.file_content
  /\ filename' = other.filename
  /\ pc' = other.pc
  /\ lines' = other.lines
  /\ line_idx' = other.line_idx
  /\ fieldnames' = other.fieldnames
  /\ row_num' = other.row_num
  /\ row' = other.row
  /\ rows' = other.rows
  /\ validations' = other.validations
  /\ seen_hashes' = other.seen_hashes
  /\ exc' = other.exc
  /\ caught' = other.caught
  /\ result' = other.result
  /\ UNCHANGED <<caller, hashVars, docVars, svcVars, storeVars, response>>

NextConc ==
  \/ DecodeContent
  \/ CheckFieldnames
  \/ NextRow
  \/ ProcessRow
  \/ CheckEmptyFile
  \/ HandleException
  \/ Return
  \/ Switch

SpecConc == InitConc /\ [][NextConc]_vars

(***************************************************************************)
(* DocumentService.analyze_document                                        *)
(***************************************************************************)
csvVars ==
  <<inputVars, pc, engineVars, storeVars, response, hashVars, concVars, svcVars>>

InitDoc ==
  /\ client \in { "None", "AsyncOpenAI" }
  /\ openai_api_key \in { <<>>, B(<<"s", "k", "-", "t", "e", "s", "t">>) }
  /\ doc_file_content \in DocContents
  /\ content_type \in ContentTypes
  /\ s3_key \in S3Keys
  /\ dpc = "ai_check"
  /\ DocFresh
  /\ SvcIdle
  /\ caller = "direct"
  /\ file_content = <<>>
  /\ filename = TestName
  /\ pc = "done"
  /\ hash_in = [a |-> <<>>, b |-> <<>>]
  /\ current = 1
  /\ other = NoFrame
  /\ Fresh

\* lines 244-252
CheckAiAvailable ==
  /\ dpc = "ai_check"
  /\ IF ~is_ai_available(client, openai_api_key)
     THEN /\ analysis' = DocumentAnalysisResult(PENDIENTE, 0, None, None, NotConfigured)
          /\ dpc' = "done"
     ELSE /\ dpc' = "prepare"
          /\ UNCHANGED analysis
  /\ UNCHANGED <<csvVars, docInputs, raw_text, is_image, doc_type, confidence,
                 invoice_data, info_data, ai_calls, pdf_calls, db_log>>

\* DocumentService._extract_text_from_pdf, lines 114-124
extract_text_from_pdf(outcome) ==
  IF outcome.raises THEN <<>> ELSE Strip(outcome.text)

\* lines 255-259
PrepareText ==
  /\ dpc = "prepare"
  /\ is_image' = StartsWith(content_type, ImagePrefix)
  /\ IF content_type = ApplicationPdf
     THEN \E outcome \in PdfOutcomes :
            /\ pdf_calls' = Append(pdf_calls, outcome)
            /\ raw_text' = extract_text_from_pdf(outcome)
     ELSE /\ raw_text' = <<>>
          /\ UNCHANGED pdf_calls
  /\ dpc' = "classify"
  /\ UNCHANGED <<csvVars, docInputs, doc_type, confidence, invoice_data,
                 info_data, ai_calls, db_log, analysis>>

\* a classification that is called again when the body of the try raised
Classify_Retried ==
  /\ dpc = "classify"
  /\ Len(ai_calls) < 3
  /\ \E reply \in ClassifyReplies :
       /\ ai_calls' = Append(ai_calls,
                             AiCall("classify",
                                    UserContent(doc_file_content, content_type,
                                                raw_text, is_image, 4000),
                                    reply))
       /\ \E r \in { classify_document(reply) } :
            /\ doc_type' = r.doc_type
            /\ confidence' = r.confidence
            /\ dpc' = IF ClassifyTry(reply).exc # "none" /\ Len(ai_calls) < 2
                      THEN "classify" ELSE "extract"
  /\ UNCHANGED <<csvVars, docInputs, raw_text, is_image, invoice_data,
                 info_data, pdf_calls, db_log, analysis>>

\* lines 262-264 with _classify_document, lines 348-391
Classify ==
  /\ dpc = "classify"
  /\ \E reply \in ClassifyReplies :
       /\ ai_calls' = Append(ai_calls,
                             AiCall("classify",
                                    UserContent(doc_file_content, content_type,
                                                raw_text, is_image, 4000),
                                    reply))
       /\ \E r \in { classify_document(reply) } :
            IF r.raised
            THEN /\ dpc' = "raised"
                 /\ UNCHANGED <<doc_type, confidence>>
            ELSE /\ doc_type' = r.doc_type
                 /\ confidence' = r.confidence
                 /\ dpc' = "extract"
  /\ UNCHANGED <<csvVars, docInputs, raw_text, is_image, invoice_data,
                 info_data, pdf_calls, db_log, analysis>>

\* an invoice extraction that falls through to the info extraction
ExtractInvoice_ThenInfo ==
  /\ dpc = "extract"
  /\ ExtractionFor(doc_type) = "invoice"
  /\ \E reply \in InvoiceReplies :
       /\ ai_calls' = Append(ai_calls,
                             AiCall("extract_invoice",
                                    UserContent(doc_file_content, content_type,
                                                raw_text, is_image, 8000),
                                    reply))
       /\ invoice_data' = extract_invoice_data(reply)
  /\ info_data' = None
  /\ doc_type' = INFORMACION
  /\ dpc' = "extract"
  /\ UNCHANGED <<csvVars, docInputs, raw_text, is_image, confidence,
                 pdf_calls, db_log, analysis>>

\* lines 267-274 with _extract_invoice_data, lines 393-454
ExtractInvoice ==
  /\ dpc = "extract"
  /\ ExtractionFor(doc_type) = "invoice"
  /\ \E reply \in InvoiceReplies :
       LET content == UserContent(doc_file_content, content_type, raw_text,
                                  is_image, 8000)
       IN /\ ai_calls' = Append(ai_calls, AiCall("extract_invoice", content, reply))
          /\ invoice_data' = extract_invoice_data(reply)
  /\ info_data' = None
  /\ dpc' = "save"
  /\ UNCHANGED <<csvVars, docInputs, raw_text, is_image, doc_type, confidence,
                 pdf_calls, db_log, analysis>>

\* lines 267-268, 275-279 with _extract_info_data, lines 456-503
ExtractInfo ==
  /\ dpc = "extract"
  /\ ExtractionFor(doc_type) = "info"
  /\ \E reply \in InfoReplies :
       LET content == UserContent(doc_file_content, content_type, raw_text,
                                  is_image, 8000)
       IN /\ ai_calls' = Append(ai_calls, AiCall("extract_info", content, reply))
          /\ info_data' = extract_info_data(reply)
  /\ invoice_data' = None
  /\ dpc' = "save"
  /\ UNCHANGED <<csvVars, docInputs, raw_text, is_image, doc_type, confidence,
                 pdf_calls, db_log, analysis>>

\* what the session may do with the statements of lines 301-334
DbOutcomes == { "ok", "flush_fails", "commit_fails" }

\* lines 290-338: the statements sent to the session
SaveStatements(outcome, inv, inf) ==
  IF outcome = "flush_fails" THEN << "add Document", "flush", "rollback" >>
  ELSE << "add Document", "flush" >>
       \o (IF inv.present THEN << "add InvoiceData" >> ELSE <<>>)
       \o (IF inf.present THEN << "add InfoData" >> ELSE <<>>)
       \o << "commit" >>
       \o (IF outcome = "commit_fails" THEN << "rollback" >> ELSE <<>>)

\* lines 282-338
SaveAnalysis ==
  /\ dpc = "save"
  /\ IF s3_key = "None"
     THEN UNCHANGED db_log
     ELSE \E outcome \in DbOutcomes :
            db_log' = db_log \o SaveStatements(outcome, invoice_data, info_data)
  /\ dpc' = "return"
  /\ UNCHANGED <<csvVars, docInputs, raw_text, is_image, doc_type, confidence,
                 invoice_data, info_data, ai_calls, pdf_calls, analysis>>

\* a return that gives up the classification when nothing was extracted
ReturnResult_RevertOnFailure ==
  /\ dpc = "return"
  /\ analysis' =
       IF ~invoice_data.present /\ ~info_data.present
       THEN DocumentAnalysisResult(PENDIENTE, 0, None, None, raw_text)
       ELSE DocumentAnalysisResult(doc_type, confidence, invoice_data,
                                   info_data, raw_text)
  /\ dpc' = "done"
  /\ UNCHANGED <<csvVars, docInputs, raw_text, is_image, doc_type, confidence,
                 invoice_data, info_data, ai_calls, pdf_calls, db_log>>

\* lines 340-346
ReturnResult ==
  /\ dpc = "return"
  /\ analysis' = DocumentAnalysisResult(doc_type, confidence, invoice_data,
                                        info_data, raw_text)
  /\ dpc' = "done"
  /\ UNCHANGED <<csvVars, docInputs, raw_text, is_image, doc_type, confidence,
                 invoice_data, info_data, ai_calls, pdf_calls, db_log>>

NextDoc ==
  \/ CheckAiAvailable
  \/ PrepareText
  \/ Classify
  \/ ExtractInvoice
  \/ ExtractInfo
  \/ SaveAnalysis
  \/ ReturnResult

SpecDoc == InitDoc /\ [][NextDoc]_vars

(***************************************************************************)
(* S3Service: every operation is one or two calls of the boto3 client;     *)
(* a call succeeds, raises ClientError, or raises another error of         *)
(* botocore (no connection), which no except clause of S3Service names.    *)
(***************************************************************************)
\* the most S3Service operations called in a row
MaxS3Ops == 3

ClientOutcomes == { "ok", "ClientError", "BotoCoreError" }

ClientCall(api, outcome) == [api |-> api, outcome |-> outcome]

S3Result(op, calls, raised, ok, body, error) ==
  [op |-> op, calls |-> calls, raised |-> raised, ok |-> ok, body |-> body,
   error |-> error]

\* a version that gives up when head_bucket fails
ensure_bucket_exists_NoCreate(head, create) ==
  IF head = "ok"
  THEN S3Result("ensure_bucket_exists", << ClientCall("head_bucket", head) >>,
                FALSE, TRUE, <<>>, "none")
  ELSE S3Result("ensure_bucket_exists", << ClientCall("head_bucket", head) >>,
                head # "ClientError", FALSE, <<>>, "none")

\* lines 25-36; head and create are what head_bucket and create_bucket do
ensure_bucket_exists(head, create) ==
  IF head = "ok"
  THEN S3Result("ensure_bucket_exists", << ClientCall("head_bucket", head) >>,
                FALSE, TRUE, <<>>, "none")
  ELSE IF head # "ClientError"
  THEN S3Result("ensure_bucket_exists", << ClientCall("head_bucket", head) >>,
                TRUE, FALSE, <<>>, "none")
  ELSE S3Result("ensure_bucket_exists",
                << ClientCall("head_bucket", head), ClientCall("create_bucket", create) >>,
                create \notin { "ok", "ClientError" }, create = "ok", <<>>, "none")

\* the body stored under key
BodyOf(objects, key) == (CHOOSE o \in objects : o.key = key).body

\* a version whose except clause is missing
download_file_NoExcept(get, objects, key) ==
  S3Result("download_file", << ClientCall("get_object", get) >>, get # "ok",
           get = "ok", IF get = "ok" THEN BodyOf(objects, key) ELSE <<>>, "none")

\* lines 74-91: ok = FALSE stands for the return value None
download_file(get, objects, key) ==
  S3Result("download_file", << ClientCall("get_object", get) >>,
           get \notin { "ok", "ClientError" }, get = "ok",
           IF get = "ok" THEN BodyOf(objects, key) ELSE <<>>, "none")

\* lines 93-110
delete_file(del, objects, key) ==
  S3Result("delete_file", << ClientCall("delete_object", del) >>,
           del \notin { "ok", "ClientError" }, del = "ok", <<>>, "none")

\* lines 38-72: error is str(e)
UploadResult(put) ==
  S3Result("upload_file", << ClientCall("put_object", put) >>,
           put \notin { "ok", "ClientError" }, put = "ok", <<>>,
           IF put = "ClientError" THEN "str(ClientError)" ELSE "none")

ObjectKeys == { S3Key, "documents/{user_id}/{timestamp}_{unique_id}.pdf" }

ObjectBodies == { B(<<"%", "P", "D", "F">>), B(<<"a", ",", "b", "\n">>) }

HasObject(objects, key) == \E o \in objects : o.key = key

\* what the object store can answer: nothing succeeds without the bucket,
\* and get_object succeeds only for a stored key
HeadOutcomes(bucket) == IF bucket THEN ClientOutcomes ELSE ClientOutcomes \ { "ok" }

GetOutcomes(bucket, objects, key) ==
  IF bucket /\ HasObject(objects, key) THEN ClientOutcomes
  ELSE ClientOutcomes \ { "ok" }

\* everything but the object store and the S3Service trace
s3Rest ==
  <<inputVars, pc, engineVars, uploaded_files, csv_data, file_validations,
    response, hashVars, concVars, docVars, document, invoice_rows, info_rows,
    event_log, reqs, run>>

InitS3 ==
  /\ caller = "direct"
  /\ file_content = <<>>
  /\ filename = TestName
  /\ pc = "done"
  /\ hash_in = [a |-> <<>>, b |-> <<>>]
  /\ current = 1
  /\ other = NoFrame
  /\ Fresh
  /\ DocIdle
  /\ bucket_exists \in BOOLEAN
  /\ s3_ops = 0
  /\ s3_result = NoS3Result
  /\ document = NoDocument
  /\ invoice_rows = 0
  /\ info_rows = 0
  /\ event_log = <<>>
  /\ reqs = <<>>
  /\ run = NoRun

\* S3Service.ensure_bucket_exists
EnsureBucketExists ==
  /\ s3_ops < MaxS3Ops
  /\ \E head \in HeadOutcomes(bucket_exists), create \in ClientOutcomes :
       \E r \in { ensure_bucket_exists(head, create) } :
         /\ s3_result' = r
         /\ bucket_exists' =
              (bucket_exists \/ \E i \in 1..Len(r.calls) :
                                  r.calls[i] = ClientCall("create_bucket", "ok"))
  /\ s3_ops' = s3_ops + 1
  /\ UNCHANGED <<s3Rest, s3_objects>>

\* S3Service.upload_file
UploadFile ==
  /\ s3_ops < MaxS3Ops
  /\ \E put \in HeadOutcomes(bucket_exists), key \in ObjectKeys, body \in ObjectBodies :
       /\ s3_result' = UploadResult(put)
       /\ s3_objects' = upload_file(put = "ok", s3_objects, key, body).objects
  /\ s3_ops' = s3_ops + 1
  /\ UNCHANGED <<s3Rest, bucket_exists>>

\* S3Service.download_file
DownloadFile ==
  /\ s3_ops < MaxS3Ops
  /\ \E key \in ObjectKeys :
       \E get \in GetOutcomes(bucket_exists, s3_objects, key) :
         s3_result' = download_file(get, s3_objects, key)
  /\ s3_ops' = s3_ops + 1
  /\ UNCHANGED <<s3Rest, bucket_exists, s3_objects>>

\* S3Service.delete_file
DeleteFile ==
  /\ s3_ops < MaxS3Ops
  /\ \E key \in ObjectKeys, del \in HeadOutcomes(bucket_exists) :
       /\ s3_result' = delete_file(del, s3_objects, key)
       /\ s3_objects' = IF del = "ok" THEN { o \in s3_objects : o.key # key }
                        ELSE s3_objects
  /\ s3_ops' = s3_ops + 1
  /\ UNCHANGED <<s3Rest, bucket_exists>>

NextS3 ==
  \/ EnsureBucketExists
  \/ UploadFile
  \/ DownloadFile
  \/ DeleteFile

SpecS3 == InitS3 /\ [][NextS3]_vars

(***************************************************************************)
(* app/api/documents.py: upload_document and reanalyze_document, with the  *)
(* tables of app/models/models.py and the events of                        *)
(* app/services/event_service.py.  One upload request creates the          *)
(* document; MaxReanalyze requests re-analyse it.  A request is a record   *)
(* of reqs; each has a database session of its own (get_db), and the       *)
(* requests interleave at every statement that leaves the handler: an S3   *)
(* call, a commit, the awaited analysis.                                   *)
(***************************************************************************)
MaxReanalyze == 1

\* the key and the bytes of the uploaded file
DocKey == "documents/1/a.pdf"

DocBody == B(<<"%", "P", "D", "F">>)

\* EventTypeEnum, schemas.py lines 147-152
DOCUMENT_UPLOAD == "subida_documento"

AI_ANALYSIS == "analisis_ia"

\* what a handler reads of the DocumentAnalysisResult
Summary(a) ==
  [returned |-> TRUE, document_type |-> a.document_type,
   invoice |-> a.invoice_data.present, info |-> a.info_data.present]

NoSummary == [returned |-> FALSE, document_type |-> <<>>, invoice |-> FALSE, info |-> FALSE]

\* DocumentService.analyze_document, lines 214-346, as a function of the
\* answers of the model
analyze_document(available, creply, ereply) ==
  IF ~available
  THEN DocumentAnalysisResult(PENDIENTE, 0, None, None, NotConfigured)
  ELSE IF ExtractionFor(classify_document(creply).doc_type) = "invoice"
       THEN DocumentAnalysisResult(classify_document(creply).doc_type,
                                   classify_document(creply).confidence,
                                   extract_invoice_data(ereply), None, <<>>)
       ELSE DocumentAnalysisResult(classify_document(creply).doc_type,
                                   classify_document(creply).confidence,
                                   None, extract_info_data(ereply), <<>>)

\* answers of the model to the classification of the uploaded file
ApiClassifyReplies ==
  { Raises,
    Text(<< JsonTok(ClassifyObject(JStr(FACTURA), JNum(90))) >>),
    Text(<< JsonTok(ClassifyObject(JStr(INFORMACION), JNum(90))) >>),
    Text(<< JsonTok(ClassifyObject(JStr(PENDIENTE), JNum(90))) >>) }

\* answers of the model to the extraction that follows
ApiExtractionReplies(creply) ==
  IF ExtractionFor(classify_document(creply).doc_type) = "invoice"
  THEN { Raises,
         Text(<< JsonTok(InvoiceObject(JStr(B(<<"A", "C", "M", "E">>)), JNum(10050),
                                       JStr(B(<<"U", "S", "D">>)),
                                       JList(<< GoodProduct >>))) >>) }
  ELSE { Raises,
         Text(<< JsonTok(InfoObject(JStr(B(<<"c", "a", "r", "t", "a">>)),
                                    JStr(B(<<"p", "o", "s", "i", "t", "i", "v", "o">>)),
                                    JNum(50),
                                    JList(<< JStr(B(<<"t", "e", "m", "a">>)) >>))) >>) }

\* what the awaited analyze_document gives a handler
ConfiguredOutcomes ==
  UNION { { Summary(analyze_document(TRUE, c, e)) : e \in ApiExtractionReplies(c) } :
          c \in ApiClassifyReplies }

UnconfiguredOutcomes == { Summary(analyze_document(FALSE, Raises, Raises)) }

AnalysisOutcomes(available) ==
  IF available THEN ConfiguredOutcomes ELSE UnconfiguredOutcomes

\* a request before its handler runs
NewRequest(kind) ==
  [kind |-> kind, pc |-> IF kind = "upload" THEN "s3_upload" ELSE "query",
   result |-> NoSummary, caught |-> FALSE, response |-> "none"]

Requests == DOMAIN reqs

NotStarted(r) == reqs[r].pc \in { "s3_upload", "query" } /\ reqs[r].response = "none"

Finished(r) == reqs[r].pc = "done"

InFlight(r) == ~NotStarted(r) /\ ~Finished(r)

OthersInFlight(r) == \E q \in Requests \ { r } : InFlight(q)

\* the request moves to the next statement
Goto(r, next) == [reqs EXCEPT ![r].pc = next]

\* the handler returns or raises
Finish(r, code) == [reqs EXCEPT ![r].pc = "done", ![r].response = code]

\* run after a step of request r: over says that the handler is over
RunAfter(r, over) ==
  [overlap |-> run.overlap \/ (NotStarted(r) /\ OthersInFlight(r)),
   last |-> IF over THEN r ELSE run.last]

\* EventService.create_event, lines 25-60, after its commit
Event(type, success, r) == [event_type |-> type, success |-> success, by |-> r]

apiRest ==
  <<inputVars, pc, engineVars, uploaded_files, csv_data, file_validations,
    response, hashVars, concVars, docVars, bucket_exists, s3_ops, s3_result>>

InitApi ==
  /\ caller = "direct"
  /\ file_content = <<>>
  /\ filename = TestName
  /\ pc = "done"
  /\ hash_in = [a |-> <<>>, b |-> <<>>]
  /\ current = 1
  /\ other = NoFrame
  /\ Fresh
  /\ client \in { "None", "AsyncOpenAI" }
  /\ openai_api_key = B(<<"s", "k">>)
  /\ doc_file_content = <<>>
  /\ content_type = <<>>
  /\ s3_key = "None"
  /\ dpc = "idle"
  /\ DocFresh
  /\ bucket_exists = TRUE
  /\ s3_ops = 0
  /\ s3_result = NoS3Result
  /\ document = NoDocument
  /\ invoice_rows = 0
  /\ info_rows = 0
  /\ event_log = <<>>
  /\ run = NoRun
  /\ reqs = [r \in 1 .. (1 + MaxReanalyze) |->
               NewRequest(IF r = 1 THEN "upload" ELSE "reanalyze")]

\* upload_document lines 163-175 with S3Service.upload_file
UploadToS3 ==
  \E r \in Requests :
    /\ reqs[r].kind = "upload"
    /\ reqs[r].pc = "s3_upload"
    /\ \E put \in ClientOutcomes :
         \E res \in { UploadResult(put) } :
           IF res.raised
           THEN /\ reqs' = Finish(r, "unhandled")
                /\ UNCHANGED s3_objects
           ELSE IF ~res.ok
                THEN /\ reqs' = Finish(r, "500")
                     /\ UNCHANGED s3_objects
                ELSE /\ s3_objects' = upload_file(TRUE, s3_objects, DocKey, DocBody).objects
                     /\ reqs' = Goto(r, "create_document")
    /\ run' = RunAfter(r, reqs'[r].pc = "done")
    /\ UNCHANGED <<apiRest, document, invoice_rows, info_rows, event_log>>

\* upload_document lines 180-192
CreateDocument ==
  \E r \in Requests :
    /\ reqs[r].pc = "create_document"
    /\ \E committed \in BOOLEAN :
         IF committed
         THEN /\ document' = [exists |-> TRUE, analysis_status |-> "processing",
                              document_type |-> PENDIENTE]
              /\ reqs' = Goto(r, "log_upload")
         ELSE /\ reqs' = Finish(r, "unhandled")
              /\ UNCHANGED document
    /\ run' = RunAfter(r, reqs'[r].pc = "done")
    /\ UNCHANGED <<apiRest, s3_objects, invoice_rows, info_rows, event_log>>

\* upload_document lines 195-200 with log_document_upload
LogUpload ==
  \E r \in Requests :
    /\ reqs[r].pc = "log_upload"
    /\ \E committed \in BOOLEAN :
         IF committed
         THEN /\ event_log' = Append(event_log, Event(DOCUMENT_UPLOAD, TRUE, r))
              /\ reqs' = Goto(r, "analyze")
         ELSE /\ reqs' = Finish(r, "unhandled")
              /\ UNCHANGED event_log
    /\ run' = RunAfter(r, reqs'[r].pc = "done")
    /\ UNCHANGED <<apiRest, s3_objects, document, invoice_rows, info_rows>>

\* reanalyze_document lines 441-450
QueryDocument ==
  \E r \in Requests :
    /\ reqs[r].kind = "reanalyze"
    /\ reqs[r].pc = "query"
    /\ reqs' = IF document.exists
               THEN Goto(r, "download")
               ELSE Finish(r, "404")
    /\ run' = RunAfter(r, reqs'[r].pc = "done")
    /\ UNCHANGED <<apiRest, s3_objects, document, invoice_rows, info_rows, event_log>>

\* reanalyze_document lines 453-460 with S3Service.download_file
DownloadDocument ==
  \E r \in Requests :
    /\ reqs[r].pc = "download"
    /\ \E get \in GetOutcomes(TRUE, s3_objects, DocKey) :
         \E res \in { download_file(get, s3_objects, DocKey) } :
           reqs' = IF res.raised
                   THEN Finish(r, "unhandled")
                   ELSE IF res.body = <<>>
                        THEN Finish(r, "404")
                        ELSE Goto(r, "reset")
    /\ run' = RunAfter(r, reqs'[r].pc = "done")
    /\ UNCHANGED <<apiRest, s3_objects, document, invoice_rows, info_rows, event_log>>

\* reanalyze_document lines 463-469
ResetDocument ==
  \E r \in Requests :
    /\ reqs[r].pc = "reset"
    /\ \E committed \in BOOLEAN :
         IF committed
         THEN /\ invoice_rows' = 0
              /\ info_rows' = 0
              /\ document' = [document EXCEPT !.analysis_status = "processing"]
              /\ reqs' = Goto(r, "analyze")
         ELSE /\ reqs' = Finish(r, "unhandled")
              /\ UNCHANGED <<document, invoice_rows, info_rows>>
    /\ run' = RunAfter(r, reqs'[r].pc = "done")
    /\ UNCHANGED <<apiRest, s3_objects, event_log>>

\* lines 204-208 and 476-480: the awaited analyze_document
AwaitAnalysis ==
  \E r \in Requests :
    /\ reqs[r].pc = "analyze"
    /\ \E a \in AnalysisOutcomes(is_ai_available(client, openai_api_key)) :
         reqs' = [reqs EXCEPT ![r].pc = "store", ![r].result = a]
    /\ run' = RunAfter(r, reqs'[r].pc = "done")
    /\ UNCHANGED <<apiRest, s3_objects, document, invoice_rows, info_rows, event_log>>

\* the row lines 218-248 and 490-520 add to the session
RowFor(a) ==
  IF a.document_type = FACTURA /\ a.invoice THEN "invoice"
  ELSE IF a.document_type = INFORMACION /\ a.info THEN "info"
  ELSE "none"

\* models.py lines 136 and 169: document_id is unique in both tables
UniqueViolation(added, invoices, infos) ==
  \/ added = "invoice" /\ invoices >= 1
  \/ added = "info" /\ infos >= 1

\* lines 211-250 and 483-522
StoreAnalysis ==
  \E r \in Requests :
    /\ reqs[r].pc = "store"
    /\ \E committed \in BOOLEAN :
         IF committed /\ ~UniqueViolation(RowFor(reqs[r].result), invoice_rows, info_rows)
         THEN /\ document' = [document EXCEPT
                                !.analysis_status = "completed",
                                !.document_type = reqs[r].result.document_type]
              /\ invoice_rows' = invoice_rows
                                   + (IF RowFor(reqs[r].result) = "invoice" THEN 1 ELSE 0)
              /\ info_rows' = info_rows
                                + (IF RowFor(reqs[r].result) = "info" THEN 1 ELSE 0)
              /\ reqs' = Goto(r, "log_analysis")
         ELSE /\ reqs' = [reqs EXCEPT ![r].pc = "except", ![r].caught = TRUE]
              /\ UNCHANGED <<document, invoice_rows, info_rows>>
    /\ run' = RunAfter(r, reqs'[r].pc = "done")
    /\ UNCHANGED <<apiRest, s3_objects, event_log>>

\* lines 254-262 and 526-535 with log_ai_analysis
LogAnalysis ==
  \E r \in Requests :
    /\ reqs[r].pc = "log_analysis"
    /\ \E committed \in BOOLEAN :
         IF committed
         THEN /\ event_log' = Append(event_log, Event(AI_ANALYSIS, TRUE, r))
              /\ reqs' = Finish(r, IF reqs[r].kind = "upload" THEN "201" ELSE "200")
         ELSE /\ reqs' = [reqs EXCEPT ![r].pc = "except", ![r].caught = TRUE]
              /\ UNCHANGED event_log
    /\ run' = RunAfter(r, reqs'[r].pc = "done")
    /\ UNCHANGED <<apiRest, s3_objects, document, invoice_rows, info_rows>>

\* lines 264-267 and 537-540: the except branch marks the document
MarkFailed ==
  \E r \in Requests :
    /\ reqs[r].pc = "except"
    /\ \E committed \in BOOLEAN :
         IF committed
         THEN /\ document' = [document EXCEPT !.analysis_status = "failed"]
              /\ reqs' = Goto(r, "log_failure")
         ELSE /\ reqs' = Finish(r, "unhandled")
              /\ UNCHANGED document
    /\ run' = RunAfter(r, reqs'[r].pc = "done")
    /\ UNCHANGED <<apiRest, s3_objects, invoice_rows, info_rows, event_log>>

\* lines 270-282 and 542-554
LogFailure ==
  \E r \in Requests :
    /\ reqs[r].pc = "log_failure"
    /\ \E committed \in BOOLEAN :
         IF committed
         THEN /\ event_log' = Append(event_log, Event(AI_ANALYSIS, FALSE, r))
              /\ reqs' = Finish(r, "500")
         ELSE /\ reqs' = Finish(r, "unhandled")
              /\ UNCHANGED event_log
    /\ run' = RunAfter(r, reqs'[r].pc = "done")
    /\ UNCHANGED <<apiRest, s3_objects, document, invoice_rows, info_rows>>

NextApi ==
  \/ UploadToS3
  \/ CreateDocument
  \/ LogUpload
  \/ QueryDocument
  \/ DownloadDocument
  \/ ResetDocument
  \/ AwaitAnalysis
  \/ StoreAnalysis
  \/ LogAnalysis
  \/ MarkFailed
  \/ LogFailure

SpecApi == InitApi /\ [][NextApi]_vars

(***************************************************************************)
(* Properties                                                              *)
(***************************************************************************)
OfType(vs, type) == SelectSeq(vs, LAMBDA v : v.validation_type = type)

\* the validations of one type about the cell of column col in row number n
CellWarnings(vs, type, n, col) ==
  SelectSeq(vs, LAMBDA v : /\ v.validation_type = type
                           /\ v.row_number = n
                           /\ v.column_name = col)

\* the duplicate_row validations about row number n
DupWarnings(vs, n) ==
  SelectSeq(vs, LAMBDA v : v.validation_type = "duplicate_row" /\ v.row_number = n)

\* the index of the first row with the content of rs[j]
FirstEqual(rs, j) ==
  CHOOSE i \in 1..j : rs[i] = rs[j] /\ \A k \in 1..(i - 1) : rs[k] # rs[j]

\* the data row at index j is row number j + 1: the header is row 1
RowNumber(j) == j + 1

\* C1: validate_and_process never raises: no exception leaves it, and when it
\* returns after a failure (an exception was caught, no header was found, or
\* no data row was parsed) the returned validations hold an entry of
\* severity error and the rows appended so far are returned with them.
C1_NeverRaises ==
  /\ pc # "raised"
  /\ result.returned =>
       /\ exc = "none"
       /\ result.rows = rows
       /\ result.validations = validations
       /\ (caught # "none" \/ fieldnames = <<>> \/ result.rows = <<>>)
            => HasError(result.validations)
       /\ caught # "none" =>
            /\ result.validations[Len(result.validations)].severity = "error"
            /\ result.validations[Len(result.validations)].validation_type
                 \in { "parse_error", "unknown_error" }

\* C1 witness: an unexpected exception (the TypeError of sorted) was caught
\* and the call returned rows and an error validation
C1_Witness ==
  /\ result.returned
  /\ caught = "TypeError"
  /\ result.rows # <<>>
  /\ HasError(result.validations)

NothingStored ==
  /\ s3_objects = {}
  /\ uploaded_files = <<>>
  /\ csv_data = <<>>
  /\ file_validations = <<>>

Stored ==
  /\ s3_objects = { [key |-> S3Key, body |-> file_content] }
  /\ Len(uploaded_files) = 1
  /\ uploaded_files[1].upload_status = "completed"
  /\ uploaded_files[1].row_count = Len(result.rows)
  /\ Len(csv_data) = Len(result.rows)
  /\ [i \in 1..Len(file_validations) |-> file_validations[i].validation]
       = result.validations

Handled == caller = "upload_csv_file" /\ pc = "done"

C3_DuplicateNamesFirst ==
  result.returned =>
    \A j \in 1..Len(result.rows) :
      LET f == FirstEqual(result.rows, j)
          w == DupWarnings(result.validations, RowNumber(j))
      IN IF f < j THEN w = <<DuplicateRow(RowNumber(j), RowNumber(f))>>
         ELSE w = <<>>

\* C4 as stated: two rows that differ in a value have different
\* fingerprints, and a duplicate_row warning only ever names a row whose
\* values all equal those of the row it is about.
C4_ValueEquality ==
  /\ \A i, j \in 1..Len(rows) :
       (/\ rows[i] # rows[j]
        /\ ~compute_row_hash(rows[i]).raised
        /\ ~compute_row_hash(rows[j]).raised)
         => compute_row_hash(rows[i]).hash # compute_row_hash(rows[j]).hash
  /\ \A n \in 1..Len(validations) :
       validations[n].validation_type = "duplicate_row" =>
         rows[validations[n].row_number - 1] = rows[validations[n].message.args[1] - 1]

\* C5: two dicts holding the same (column, value) pairs in different
\* insertion orders get the same result from _compute_row_hash.
C5_OrderIndependent ==
  hash_out.b.called => hash_out.a.value = hash_out.b.value

\* C5 witness: two different orders of the same items were fingerprinted
C5_Witness ==
  /\ hash_out.b.called
  /\ hash_in.a # hash_in.b
  /\ Len(hash_in.a) >= 2
  /\ ~hash_out.a.value.raised

\* C6 as stated: every cell of every returned data row has exactly one
\* empty_value warning when its value is absent or blank after trimming and
\* none otherwise, and an empty cell has no invalid_type warning.
C6_EmptyValuePerCell ==
  result.returned =>
    \A j \in 1..Len(result.rows) :
      \A i \in 1..Len(result.rows[j]) :
        LET cell == result.rows[j][i]
            e == CellWarnings(result.validations, "empty_value", RowNumber(j), cell.k)
            t == CellWarnings(result.validations, "invalid_type", RowNumber(j), cell.k)
        IN IF IsEmptyValue(cell.v)
           THEN e = <<EmptyValue(RowNumber(j), cell.k)>> /\ t = <<>>
           ELSE e = <<>>

C7Input ==
  B(<<"n", "a", "m", "e", ",", "p", "r", "e", "c", "i", "o", "\n", "A", ",", ",", "\n">>)

Precio == PyStr(B(<<"p", "r", "e", "c", "i", "o">>))

\* C7 as stated: for the bytes "name,precio\nA,,\n" the result holds one
\* empty_value warning for column precio and no invalid_type warning for it.
C7_EmptyPrecio ==
  (result.returned /\ file_content = C7Input) =>
    /\ Len(SelectSeq(result.validations,
                     LAMBDA v : v.validation_type = "empty_value"
                                /\ v.column_name = Precio)) = 1
    /\ SelectSeq(result.validations,
                 LAMBDA v : v.validation_type = "invalid_type"
                            /\ v.column_name = Precio) = <<>>

\* C8 as stated: a cell of a returned data row has an invalid_type warning
\* exactly when its column, lower-cased, is in numeric_columns, its value is
\* not empty and float() rejects the value with "," replaced by "."; the
\* message carries the raw value.
C8_InvalidTypeIff ==
  result.returned =>
    \A j \in 1..Len(result.rows) :
      \A i \in 1..Len(result.rows[j]) :
        LET cell == result.rows[j][i]
            t == CellWarnings(result.validations, "invalid_type", RowNumber(j), cell.k)
        IN IF /\ Lower(Str(cell.k)) \in numeric_columns
              /\ ~IsEmptyValue(cell.v)
              /\ ~IsFloatText(CommaToDot(Str(cell.v)))
           THEN t = <<InvalidType(RowNumber(j), cell.k, cell.v)>>
           ELSE t = <<>>

\* the first record of the decoded content
HeaderRecord == ReaderNext(SplitLines(Decode(file_content)), 1)

NoHeaderRow ==
  \/ HeaderRecord.kind = "stop"
  \/ HeaderRecord.kind = "row" /\ HeaderRecord.fields = <<>>

\* C9: when the decoded content has no header row, the call returns no rows
\* and exactly one validation, structure_error with severity error, and no
\* data row was asked from the reader.
C9_NoHeader ==
  (result.returned /\ NoHeaderRow) =>
    /\ result.rows = <<>>
    /\ Len(result.validations) = 1
    /\ result.validations[1].validation_type = "structure_error"
    /\ result.validations[1].severity = "error"
    /\ row_num = 1
    /\ line_idx <= 2

\* C9 witness: zero bytes were validated and one structure_error came back
C9_Witness ==
  /\ result.returned
  /\ file_content = <<>>
  /\ result.validations = <<StructureError>>

\* C10 as stated: with a header and zero data rows parsed the result is zero
\* rows and exactly one validation, empty_file with severity error; no
\* empty_file when a data row was parsed.
C10_Original ==
  result.returned =>
    /\ (fieldnames # <<>> /\ result.rows = <<>>) =>
         /\ Len(result.validations) = 1
         /\ result.validations[1].validation_type = "empty_file"
         /\ result.validations[1].severity = "error"
    /\ result.rows # <<>> => OfType(result.validations, "empty_file") = <<>>

\* C10 amended: with a header and zero data rows, the result is zero rows and
\* exactly one validation of severity error: empty_file when the iteration
\* ended normally, parse_error when the reader raised csv.Error on the first
\* record; no empty_file when a data row was parsed.
C10_EmptyFile ==
  result.returned =>
    /\ (fieldnames # <<>> /\ result.rows = <<>>) =>
         /\ Len(result.validations) = 1
         /\ result.validations[1].severity = "error"
         /\ result.validations[1].validation_type =
              (IF caught = "none" THEN "empty_file" ELSE "parse_error")
         /\ caught \in { "none", "csv.Error" }
    /\ result.rows # <<>> => OfType(result.validations, "empty_file") = <<>>

\* C10 witness: a header followed by blank lines only gave one empty_file
C10_Witness ==
  /\ result.returned
  /\ fieldnames # <<>>
  /\ Len(lines) > 1
  /\ result.rows = <<>>
  /\ result.validations = <<EmptyFile>>

\* every record of the decoded content, read with the csv reader alone
RECURSIVE Records(_, _, _)
Records(ls, idx, acc) ==
  LET r == ReaderNext(ls, idx)
  IN IF r.kind = "error" THEN [ok |-> FALSE, recs |-> acc]
     ELSE IF r.kind = "stop" THEN [ok |-> TRUE, recs |-> acc]
     ELSE Records(ls, r.idx, Append(acc, r.fields))

FileRecords(content) == Records(SplitLines(Decode(content)), 1, <<>>)

\* the non-blank records after the header
DataRecords(content) ==
  SelectSeq(Tail(FileRecords(content).recs), LAMBDA r : r # <<>>)

\* a valid file: a header of distinct names, at least one data record, every
\* data record as long as the header, no blank cell, every cell of a numeric
\* column a number, and no two data records equal
IsValidCsv(content) ==
  LET p == FileRecords(content)
  IN /\ p.ok
     /\ Len(p.recs) >= 2
     /\ LET header == p.recs[1]
            data == DataRecords(content)
        IN /\ header # <<>>
           /\ \A i, j \in 1..Len(header) : header[i] = header[j] => i = j
           /\ data # <<>>
           /\ \A i \in 1..Len(data) :
                /\ Len(data[i]) = Len(header)
                /\ \A j \in 1..Len(header) :
                     /\ Strip(data[i][j]) # <<>>
                     /\ Lower(header[j]) \in numeric_columns
                          => IsFloatText(CommaToDot(data[i][j]))
           /\ \A i, j \in 1..Len(data) : data[i] = data[j] => i = j

\* the data records as dicts keyed by the header, in input order
ExpectedRows(content) ==
  LET header == FileRecords(content).recs[1]
      data == DataRecords(content)
  IN [i \in 1..Len(data) |->
        [j \in 1..Len(header) |-> [k |-> PyStr(header[j]), v |-> PyStr(data[i][j])]]]

\* C11 as stated: for a valid file with N data rows and no duplicate, empty
\* or invalid-type cell, the call returns exactly the N rows, in input order
\* and keyed by the header, and no validation at all.
C11_ValidInput ==
  (result.returned /\ IsValidCsv(file_content)) =>
    /\ result.rows = ExpectedRows(file_content)
    /\ result.validations = <<>>

ErrorTypes == { "structure_error", "empty_file", "parse_error", "unknown_error" }

WarningTypes == { "empty_value", "duplicate_row", "invalid_type" }

SeverityByType(vs) ==
  \A i \in 1..Len(vs) :
    \/ vs[i].validation_type \in ErrorTypes /\ vs[i].severity = "error"
    \/ vs[i].validation_type \in WarningTypes /\ vs[i].severity = "warning"

\* C12: every ValidationResult that validate_and_process builds, returns or
\* that the handler passes on has the severity of its type: error for
\* structure_error, empty_file, parse_error and unknown_error, warning for
\* empty_value, duplicate_row and invalid_type; there is no other type.
C12_SeverityByType ==
  /\ SeverityByType(validations)
  /\ SeverityByType(result.validations)
  /\ SeverityByType(response.validations)
  /\ SeverityByType(response.errors)

\* C12 witness: a call returned warnings of two types followed by an error
C12_Witness ==
  /\ result.returned
  /\ OfType(result.validations, "invalid_type") # <<>>
  /\ OfType(result.validations, "empty_value") # <<>>
  /\ OfType(result.validations, "unknown_error") # <<>>

\* validate_and_process as a function of the bytes: the result of a call
\* that runs alone, from the first data record on
RECURSIVE RunRows(_, _, _, _, _, _, _)
RunRows(names, ls, idx, n, rs, vs, seen) ==
  LET r == DictReaderNext(names, ls, idx)
  IN IF r.kind = "error"
     THEN [returned |-> TRUE, rows |-> rs, validations |-> Append(vs, ParseError)]
     ELSE IF r.kind = "stop"
     THEN [returned |-> TRUE, rows |-> rs,
           validations |-> IF rs = <<>> THEN Append(vs, EmptyFile) ELSE vs]
     ELSE LET h == compute_row_hash(r.row)
              known == h.hash \in DOMAIN seen
              dup == IF known THEN <<DuplicateRow(n, seen[h.hash])>> ELSE <<>>
          IN IF h.raised
             THEN [returned |-> TRUE, rows |-> Append(rs, r.row),
                   validations |-> Append(vs, UnknownError("TypeError"))]
             ELSE RunRows(names, ls, r.idx, n + 1, Append(rs, r.row),
                          vs \o dup \o ValidateColumns(r.row, 1, n),
                          IF known THEN seen ELSE seen @@ (h.hash :> n))

RunAlone(content) ==
  LET ls == SplitLines(Decode(content))
      h == ReaderNext(ls, 1)
  IN IF h.kind = "error"
     THEN [returned |-> TRUE, rows |-> <<>>, validations |-> <<ParseError>>]
     ELSE IF h.kind = "stop" \/ h.fields = <<>>
     THEN [returned |-> TRUE, rows |-> <<>>, validations |-> <<StructureError>>]
     ELSE RunRows(h.fields, ls, h.idx, 2, <<>>, <<>>, <<>>)

\* every duplicate_row of vs names an earlier row of the same call
DuplicatesOfOwnRows(vs, rs) ==
  \A i \in 1..Len(vs) :
    vs[i].validation_type = "duplicate_row" =>
      /\ vs[i].row_number - 1 \in 1..Len(rs)
      /\ vs[i].message.args[1] \in 2..(vs[i].row_number - 1)
      /\ compute_row_hash(rs[vs[i].message.args[1] - 1])
           = compute_row_hash(rs[vs[i].row_number - 1])

\* C20: under every interleaving of two calls on the shared CSVService, a
\* duplicate_row warning only names an earlier row of the same call, and
\* what each call returns is what it returns when it runs alone.
C20_NoSharedState ==
  /\ DuplicatesOfOwnRows(validations, rows)
  /\ DuplicatesOfOwnRows(other.validations, other.rows)
  /\ result.returned => result = RunAlone(file_content)
  /\ other.result.returned => other.result = RunAlone(other.file_content)

\* C20 witness: one call has recorded the fingerprint of its first row and
\* was suspended at the for statement; the other call, its own table still
\* empty, is about to process an equal row
C20_Witness ==
  /\ pc = "body"
  /\ seen_hashes = <<>>
  /\ other.pc = "for"
  /\ Len(other.rows) = 1
  /\ other.rows[1] = row
  /\ DOMAIN other.seen_hashes # {}

\* analyze_document has returned
Analysed == dpc = "done"

AiConfigured == client # "None" /\ openai_api_key # <<>>

\* what the body of _classify_document made of the answer to the first call
Classified == ClassifyTry(ai_calls[1].reply)

\* the body of the extraction that was called raised
ExtractionFailed ==
  IF ai_calls[2].op = "extract_invoice"
  THEN InvoiceTry(ai_calls[2].reply).exc # "none"
  ELSE InfoTry(ai_calls[2].reply).exc # "none"

\* C13: with no client or no API key, as soon as the availability check has
\* run the call has returned document_type pendiente, confidence 0.0 and no
\* invoice_data and no info_data, and no PDF extraction, no AI call and no
\* database statement was made, whatever the bytes and the content type.
C13_Unconfigured ==
  (dpc \notin { "idle", "ai_check" } /\ (client = "None" \/ openai_api_key = <<>>)) =>
    /\ dpc = "done"
    /\ analysis.returned
    /\ analysis.document_type = PENDIENTE
    /\ analysis.confidence = 0
    /\ analysis.invoice_data = None
    /\ analysis.info_data = None
    /\ pdf_calls = <<>>
    /\ ai_calls = <<>>
    /\ db_log = <<>>

\* C13 witness: a PDF with an s3_key was analysed by a service that has a
\* client but no API key, and pendiente came back
C13_Witness ==
  /\ Analysed
  /\ client # "None"
  /\ openai_api_key = <<>>
  /\ content_type = ApplicationPdf
  /\ doc_file_content # <<>>
  /\ s3_key # "None"
  /\ analysis.document_type = PENDIENTE

\* C14: no exception leaves analyze_document, whatever the AI answers on
\* each call and whatever PyPDF2 and the database session do; when the call
\* is over it has returned a DocumentAnalysisResult.
C14_AnalyzeNeverRaises ==
  /\ dpc # "raised"
  /\ Analysed =>
       /\ analysis.returned
       /\ analysis.document_type \in DocumentTypeEnum

\* C14 witness: PyPDF2 raised, the classification call raised, the
\* extraction answered without content, the commit failed, and a result was
\* returned
C14_Witness ==
  /\ Analysed
  /\ pdf_calls = << [raises |-> TRUE, text |-> <<>>] >>
  /\ Len(ai_calls) = 2
  /\ ai_calls[1].reply = Raises
  /\ ai_calls[2].reply = NoContent
  /\ db_log # <<>>
  /\ db_log[Len(db_log)] = "rollback"
  /\ analysis.returned

\* C15: when the body of _classify_document raises (the call raises, the
\* text is no JSON, document_type is outside the enum, confidence is no
\* number), the classification is informacion with confidence 0.0, the next
\* call is the info extraction, and the call goes on to return that type.
C15_ClassifyFallback ==
  (Len(ai_calls) >= 1 /\ Classified.exc # "none") =>
    /\ dpc # "raised"
    /\ doc_type = INFORMACION
    /\ confidence = 0
    /\ Len(ai_calls) >= 2 => ai_calls[2].op = "extract_info"
    /\ dpc \in { "save", "return", "done" } => Len(ai_calls) = 2
    /\ Analysed =>
         /\ analysis.document_type = INFORMACION
         /\ analysis.confidence = 0

FacturaWithTextConfidence ==
  Text(<< JsonTok(ClassifyObject(JStr(FACTURA), JStr(B(<<"h", "i", "g", "h">>)))) >>)

\* C15 witness: the AI answered factura with the confidence "high"; the
\* call went on with the info extraction and returned informacion with data
C15_Witness ==
  /\ Analysed
  /\ Len(ai_calls) = 2
  /\ ai_calls[1].reply = FacturaWithTextConfidence
  /\ ai_calls[2].op = "extract_info"
  /\ analysis.document_type = INFORMACION
  /\ analysis.info_data.present

\* C16: when the classification succeeded and the body of the extraction
\* raised, the result has the classified document_type and confidence and
\* neither invoice_data nor info_data; it is pendiente only if that is what
\* the classification gave.
C16_ExtractionFailureKeepsClass ==
  (Analysed /\ Len(ai_calls) = 2 /\ Classified.exc = "none" /\ ExtractionFailed) =>
    /\ analysis.document_type = Classified.doc_type
    /\ analysis.confidence = Classified.confidence
    /\ analysis.invoice_data = None
    /\ analysis.info_data = None
    /\ analysis.document_type = PENDIENTE => Classified.doc_type = PENDIENTE

\* C16 witness: classified factura with confidence 0.9, the invoice
\* extraction call raised, and factura 0.9 without data came back
C16_Witness ==
  /\ Analysed
  /\ Len(ai_calls) = 2
  /\ ai_calls[1].reply = Text(<< JsonTok(ClassifyObject(JStr(FACTURA), JNum(90))) >>)
  /\ ai_calls[2].op = "extract_invoice"
  /\ ai_calls[2].reply = Raises
  /\ analysis.document_type = FACTURA
  /\ analysis.confidence = 90
  /\ analysis.invoice_data = None

\* C17 as stated: a returned result has exactly one of invoice_data and
\* info_data, or none of them with document_type pendiente and the AI
\* unavailable.
C17_Original ==
  analysis.returned =>
    \/ analysis.invoice_data.present /\ ~analysis.info_data.present
    \/ ~analysis.invoice_data.present /\ analysis.info_data.present
    \/ /\ ~analysis.invoice_data.present
       /\ ~analysis.info_data.present
       /\ analysis.document_type = PENDIENTE
       /\ ~AiConfigured

\* C17 amended: a returned result never has both invoice_data and
\* info_data; invoice_data comes only with document_type factura and
\* info_data only with another type; both are absent exactly when the AI is
\* unavailable (pendiente) or the extraction that was called failed.
C17_AtMostOne ==
  analysis.returned =>
    /\ ~(analysis.invoice_data.present /\ analysis.info_data.present)
    /\ analysis.invoice_data.present => analysis.document_type = FACTURA
    /\ analysis.info_data.present => analysis.document_type # FACTURA
    /\ (~analysis.invoice_data.present /\ ~analysis.info_data.present) <=>
         \/ ~AiConfigured /\ analysis.document_type = PENDIENTE /\ ai_calls = <<>>
         \/ AiConfigured /\ Len(ai_calls) = 2 /\ ExtractionFailed

\* C17 witness: a result with invoice_data that lists a product and with no
\* info_data
C17_Witness ==
  /\ analysis.returned
  /\ analysis.invoice_data.present
  /\ analysis.invoice_data.products # <<>>
  /\ ~analysis.info_data.present

\* C18 as stated: the confidence of a returned result is within [0.0, 1.0].
C18_ConfidenceInRange ==
  analysis.returned => (analysis.confidence >= 0 /\ analysis.confidence <= 100)

\* the fields the schemas declare as float
NumericFields == { "invoice_total", "sentiment_score" }

ProductNumericFields == { "quantity", "unit_price", "total" }

NonNumericText(v) == v.t = "str" /\ ~IsFloatText(v.s)

\* the members with every non-numeric text of the fields keys made null
NullifyMembers(ms, keys) ==
  [i \in 1..Len(ms) |->
     IF ms[i].k \in keys /\ NonNumericText(ms[i].v) THEN Member(ms[i].k, JNull)
     ELSE ms[i]]

NullifyProducts(v) ==
  IF v.t # "list" THEN v
  ELSE JList([i \in 1..Len(v.l) |->
                IF v.l[i].t = "obj"
                THEN JObj(NullifyMembers(v.l[i].l, ProductNumericFields))
                ELSE v.l[i]])

\* the answer o with its non-numeric numeric fields made null
Nullified(o) ==
  JObj([i \in 1..Len(o.l) |->
          IF o.l[i].k = "products"
          THEN Member("products", NullifyProducts(o.l[i].v))
          ELSE NullifyMembers(o.l, NumericFields)[i]])

\* C19 as stated: when the extraction answer is a JSON object in which a
\* field declared numeric holds a non-numeric text, the data returned is
\* that of the same answer with those fields null, provided that answer is
\* accepted: the field is absent and the other fields are kept.
C19_NumericFieldAbsent ==
  (/\ Analysed
   /\ Len(ai_calls) = 2
   /\ CompletionJson(ai_calls[2].reply).exc = "none"
   /\ CompletionJson(ai_calls[2].reply).value.t = "obj") =>
    LET o == CompletionJson(ai_calls[2].reply).value
        clean == Text(<< JsonTok(Nullified(o)) >>)
    IN Nullified(o) # o =>
         IF ai_calls[2].op = "extract_invoice"
         THEN InvoiceTry(clean).exc = "none" =>
                analysis.invoice_data = InvoiceTry(clean).data
         ELSE InfoTry(clean).exc = "none" =>
                analysis.info_data = InfoTry(clean).data

\* the operations of the calls of client.chat.completions.create, in order
CallOps == [i \in 1..Len(ai_calls) |-> ai_calls[i].op]

\* C21 as stated: a call with the AI configured makes three AI calls:
\* classify, extract-invoice and extract-info.
C21_Original ==
  (Analysed /\ AiConfigured) =>
    CallOps = << "classify", "extract_invoice", "extract_info" >>

\* C21 amended: a call with the AI configured makes two AI calls, one after
\* the other: none before the classification, one when the classification
\* is over, two when the extraction is over, the first of them classify and
\* the second one of extract-invoice and extract-info.
C21_TwoSequentialCalls ==
  AiConfigured =>
    /\ dpc \in { "ai_check", "prepare", "classify" } => ai_calls = <<>>
    /\ dpc = "extract" => CallOps = << "classify" >>
    /\ dpc \in { "save", "return", "done" } =>
         \/ CallOps = << "classify", "extract_invoice" >>
         \/ CallOps = << "classify", "extract_info" >>

\* C21 witness: a call that classified an image and then extracted an
\* invoice has returned
C21_Witness ==
  /\ Analysed
  /\ AiConfigured
  /\ is_image
  /\ CallOps = << "classify", "extract_invoice" >>
  /\ analysis.invoice_data.present

\* C25: the first AI call is the classification; the second, if any, is the
\* invoice extraction when the classification gave factura and the info
\* extraction otherwise; there is no third call, so never both extractions
\* and no call made twice.
C25_ExtractionGated ==
  AiConfigured =>
    /\ Len(ai_calls) <= 2
    /\ Len(ai_calls) >= 1 => ai_calls[1].op = "classify"
    /\ Len(ai_calls) >= 2 =>
         /\ classify_document(ai_calls[1].reply).doc_type = doc_type
         /\ ai_calls[2].op = "extract_invoice" <=> doc_type = FACTURA
         /\ ai_calls[2].op = "extract_info" <=> doc_type # FACTURA
    /\ \A i, j \in 1..Len(ai_calls) : ai_calls[i].op = ai_calls[j].op => i = j

\* C25 witness: the classification failed on an answer without content and
\* the info extraction, and nothing else, followed
C25_Witness ==
  /\ Analysed
  /\ AiConfigured
  /\ Len(ai_calls) = 2
  /\ ai_calls[1].reply = NoContent
  /\ ai_calls[2].op = "extract_info"
  /\ ai_calls[2].reply \notin FailingReplies

\* C27 as stated: with the AI configured the document_type of the result is
\* never pendiente.
C27_NeverPendiente ==
  (analysis.returned /\ AiConfigured) => analysis.document_type # PENDIENTE

\* the bytes with every byte above 127 replaced by the letter e
Asciified(b) == [i \in 1..Len(b) |-> IF b[i] >= 128 THEN 101 ELSE b[i]]

\* what a validation says apart from the cell values it quotes
Shape(vs) ==
  [i \in 1..Len(vs) |->
     [validation_type |-> vs[i].validation_type, row_number |-> vs[i].row_number,
      severity |-> vs[i].severity]]

\* C23: bytes that are not UTF-8 are decoded as Latin-1, one character per
\* byte, and the call returns what it returns for the same file written
\* with ASCII letters in place of those bytes: as many rows and validations
\* of the same types, rows and severities, so none that the encoding caused.
C23_DecodingTotal ==
  (result.returned /\ ~Utf8Decode(file_content).ok) =>
    /\ lines = SplitLines(Latin1Decode(file_content))
    /\ Len(result.rows) = Len(RunAlone(Asciified(file_content)).rows)
    /\ Shape(result.validations) = Shape(RunAlone(Asciified(file_content)).validations)

\* C23 witness: a file with a Latin-1 row and an ASCII row gave both rows
\* and no error
C23_Witness ==
  /\ result.returned
  /\ ~Utf8Decode(file_content).ok
  /\ Len(result.rows) >= 2
  /\ \E i \in 1..Len(result.rows) : result.rows[i][1].v = PyStr(<<233>>)
  /\ ~HasError(result.validations)

\* the first data record longer than the header, 0 if none
FirstLong(data, n) ==
  IF \E i \in 1..Len(data) : Len(data[i]) > n
  THEN CHOOSE i \in 1..Len(data) :
         /\ Len(data[i]) > n
         /\ \A j \in 1..(i - 1) : Len(data[j]) <= n
  ELSE 0

\* the warnings of the rows rs, the first of which is row number n
RECURSIVE WarningsOf(_, _, _, _)
RECURSIVE WarningsStep(_, _, _, _, _)
WarningsOf(rs, i, seen, acc) ==
  IF i > Len(rs) THEN acc
  ELSE WarningsStep(rs, i, seen, acc, compute_row_hash(rs[i]).hash)

WarningsStep(rs, i, seen, acc, h) ==
  WarningsOf(rs, i + 1,
             IF h \in DOMAIN seen THEN seen ELSE seen @@ (h :> i + 1),
             acc \o (IF h \in DOMAIN seen THEN <<DuplicateRow(i + 1, seen[h])>> ELSE <<>>)
                 \o ValidateColumns(rs[i], 1, i + 1))

\* C24: when an exception was raised while the data rows were iterated, the
\* validations returned are the warnings of the rows processed before it
\* followed by exactly one error: parse_error for csv.Error (the failing
\* record is not among the rows), unknown_error with the text of the
\* exception otherwise (the row being processed is the last of the rows);
\* no record after the failure is among the rows.
C24_FailureWhileIterating ==
  (result.returned /\ caught # "none" /\ fieldnames # <<>>) =>
    LET data == DataRecords(file_content)
        long == FirstLong(data, Len(fieldnames))
        n == Len(result.validations)
        whole == IF caught = "csv.Error" THEN result.rows
                 ELSE SubSeq(result.rows, 1, Len(result.rows) - 1)
    IN /\ n >= 1
       /\ result.validations[n] =
            (IF caught = "csv.Error" THEN ParseError ELSE UnknownError(caught))
       /\ \A i \in 1..(n - 1) : result.validations[i].severity = "warning"
       /\ SubSeq(result.validations, 1, n - 1) = WarningsOf(whole, 1, <<>>, <<>>)
       /\ caught = "csv.Error" => (long = 0 /\ Len(result.rows) = Len(data))
       /\ caught # "csv.Error" =>
            /\ long > 0
            /\ Len(result.rows) = long
            /\ result.rows[long] = row

\* C24 witness: the second line had a blank cell, the third line was longer
\* than the header, a fourth line followed, and two rows came back with the
\* empty_value warning and one unknown_error
C24_Witness ==
  /\ result.returned
  /\ caught = "TypeError"
  /\ Len(result.rows) = 2
  /\ Len(DataRecords(file_content)) = 3
  /\ Len(result.validations) = 2
  /\ result.validations[1].validation_type = "empty_value"
  /\ result.validations[2] = UnknownError("TypeError")

\* C26 as stated: a file that the reader parses, with a header and data
\* rows, one of which has more or fewer fields than the header, gets no
\* validation of severity error, and the handler does not reject it.
C26_LengthNotStructural ==
  (/\ result.returned
   /\ FileRecords(file_content).ok
   /\ fieldnames # <<>>
   /\ DataRecords(file_content) # <<>>
   /\ \E i \in 1..Len(DataRecords(file_content)) :
        Len(DataRecords(file_content)[i]) # Len(fieldnames)) =>
    /\ ~HasError(result.validations)
    /\ response.status # 422

\* the client calls of the last operation raised nothing but ClientError
OnlyClientErrors ==
  \A i \in 1..Len(s3_result.calls) : s3_result.calls[i].outcome \in { "ok", "ClientError" }

ClientErrorAt(i) ==
  /\ i <= Len(s3_result.calls)
  /\ s3_result.calls[i].outcome = "ClientError"

\* C22: an S3Service operation whose client calls raised nothing but
\* ClientError does not raise; after a ClientError upload_file returns
\* success False with the error text, download_file returns None and
\* delete_file returns False; ensure_bucket_exists calls create_bucket
\* exactly when head_bucket raised ClientError, and returns False exactly
\* when both raised it.
C22_ClientErrorAsValue ==
  OnlyClientErrors =>
    /\ ~s3_result.raised
    /\ s3_result.op = "upload_file" =>
         /\ s3_result.ok <=> ~ClientErrorAt(1)
         /\ ClientErrorAt(1) => s3_result.error = "str(ClientError)"
    /\ s3_result.op \in { "download_file", "delete_file" } =>
         (s3_result.ok <=> ~ClientErrorAt(1))
    /\ s3_result.op = "ensure_bucket_exists" =>
         /\ s3_result.calls[1].api = "head_bucket"
         /\ Len(s3_result.calls) = (IF ClientErrorAt(1) THEN 2 ELSE 1)
         /\ Len(s3_result.calls) = 2 => s3_result.calls[2].api = "create_bucket"
         /\ ~s3_result.ok <=> (ClientErrorAt(1) /\ ClientErrorAt(2))

\* C22 witness: the bucket was missing, head_bucket raised ClientError,
\* create_bucket succeeded and ensure_bucket_exists returned True
C22_Witness ==
  /\ s3_result.op = "ensure_bucket_exists"
  /\ s3_result.calls = << ClientCall("head_bucket", "ClientError"),
                          ClientCall("create_bucket", "ok") >>
  /\ s3_result.ok
  /\ ~s3_result.raised
  /\ bucket_exists

(***************************************************************************)
(* documents.py: the order of the steps of an upload, the analysis status  *)
(* a handler leaves, and the extraction records of a document.             *)
(***************************************************************************)
\* the events request r has logged, in the order of the table
EventsBy(r) == SelectSeq(event_log, LAMBDA e : e.by = r)

\* request r is at or past the analysis
AtOrPastAnalysis(r) ==
  \/ reqs[r].pc \in { "analyze", "store", "log_analysis", "except", "log_failure" }
  \/ reqs[r].result.returned

\* the order of the steps inside the upload request: no row without the
\* blob, a failed S3 upload leaves no row and no event, and the request
\* logs its upload event before it analyses
UploadOrderWithinRequest ==
  /\ document.exists => HasObject(s3_objects, DocKey)
  /\ \A r \in Requests :
       reqs[r].kind = "upload" =>
         /\ (Finished(r) /\ ~HasObject(s3_objects, DocKey)) =>
              /\ reqs[r].response \in { "500", "unhandled" }
              /\ ~document.exists
              /\ EventsBy(r) = <<>>
         /\ (reqs[r].pc = "log_upload") =>
              /\ document.exists
              /\ EventsBy(r) = <<>>
         /\ AtOrPastAnalysis(r) =>
              /\ document.exists
              /\ EventsBy(r) # <<>>
              /\ EventsBy(r)[1] = Event(DOCUMENT_UPLOAD, TRUE, r)

\* the upload event of the document is in the table before position i
UploadLoggedBefore(i) ==
  \E j \in 1 .. (i - 1) : event_log[j].event_type = DOCUMENT_UPLOAD

\* C30: the documents row is created only after the blob was stored: a
\* failed S3 upload leaves no row and no event; for every stored document
\* the upload event is logged before any AI-analysis event of that
\* document, and an analysis starts only after the row exists and the
\* upload event is logged.
C30_UploadOrder ==
  /\ document.exists => HasObject(s3_objects, DocKey)
  /\ \A r \in Requests :
       (reqs[r].kind = "upload" /\ Finished(r) /\ ~HasObject(s3_objects, DocKey)) =>
         /\ reqs[r].response \in { "500", "unhandled" }
         /\ ~document.exists
         /\ event_log = <<>>
  /\ \A i \in DOMAIN event_log :
       event_log[i].event_type = AI_ANALYSIS => UploadLoggedBefore(i)
  /\ \A r \in Requests :
       AtOrPastAnalysis(r) =>
         /\ document.exists
         /\ UploadLoggedBefore(Len(event_log) + 1)

\* an upload that answered 201: blob, row, upload event, analysis event
UploadAnswered201 ==
  \E r \in Requests :
    /\ reqs[r].kind = "upload"
    /\ reqs[r].response = "201"
    /\ HasObject(s3_objects, DocKey)
    /\ document.exists
    /\ EventsBy(r) = << Event(DOCUMENT_UPLOAD, TRUE, r), Event(AI_ANALYSIS, TRUE, r) >>

\* an analysis event of a document whose upload event was never logged
AnalysisWithoutUploadEvent ==
  /\ document.exists
  /\ \E i \in DOMAIN event_log : event_log[i].event_type = AI_ANALYSIS
  /\ \A i \in DOMAIN event_log : event_log[i].event_type # DOCUMENT_UPLOAD

\* no request started while another was running
SequentialRun == ~run.overlap

\* request r is the last whose handler was over, and none is running
JustOver(r) ==
  /\ SequentialRun
  /\ run.last = r
  /\ \A q \in Requests : ~InFlight(q)

\* C28: a handler whose analysis returned and whose persistence raised
\* nothing leaves the document completed with a successful analysis event;
\* it leaves it failed only after an exception of the persistence or
\* logging steps; a request that created or loaded the document never
\* leaves it in processing once the handler is over.
C28_StatusSettled ==
  \A r \in Requests :
    JustOver(r) =>
      /\ (reqs[r].result.returned /\ ~reqs[r].caught) =>
           /\ document.analysis_status = "completed"
           /\ \E i \in DOMAIN event_log : event_log[i] = Event(AI_ANALYSIS, TRUE, r)
      /\ (reqs[r].result.returned /\ document.analysis_status = "failed") =>
           reqs[r].caught
      /\ document.analysis_status # "processing"

\* the first two parts of C28 alone
CompletedOrFailed ==
  \A r \in Requests :
    JustOver(r) =>
      /\ (reqs[r].result.returned /\ ~reqs[r].caught) =>
           /\ document.analysis_status = "completed"
           /\ \E i \in DOMAIN event_log : event_log[i] = Event(AI_ANALYSIS, TRUE, r)
      /\ (reqs[r].result.returned /\ document.analysis_status = "failed") =>
           reqs[r].caught

\* an upload that is over and left the document it created in processing
LeftProcessing ==
  \E r \in Requests :
    /\ reqs[r].kind = "upload"
    /\ JustOver(r)
    /\ document.analysis_status = "processing"
    /\ \A q \in Requests \ { r } : NotStarted(q)

\* the extraction records of the document agree with its type
RecordsAgree ==
  /\ invoice_rows <= 1
  /\ info_rows <= 1
  /\ ~(invoice_rows >= 1 /\ info_rows >= 1)
  /\ invoice_rows >= 1 => document.document_type = FACTURA
  /\ info_rows >= 1 => document.document_type = INFORMACION

\* C29: after any interleaving of upload and reanalyze requests a
\* document has at most one InvoiceData and one InfoData, never both, an
\* InvoiceData only if its type is factura and an InfoData only if its
\* type is informacion.
C29_OneExtractionRecord == RecordsAgree

\* C29 for the runs where no two requests overlap
RecordsAgreeSequentially == SequentialRun => RecordsAgree

\* both records after an upload and a reanalyze that overlapped
BothRecords ==
  /\ \A r \in Requests : Finished(r)
  /\ invoice_rows = 1
  /\ info_rows = 1

====
